---------------------------- MODULE Spec2Model ----------------------------
(***************************************************************************)
(* A model of tSax (src/tsax.js, lines 409-982), the pull-style XML        *)
(* tokenizer.  One parser instance is one state machine: the closure       *)
(* variables of tSax(S) are the VARIABLES, and every method of the         *)
(* returned object (next, tagName, localName, prefix, piTarget, text,      *)
(* attributes, error) is one action.                                       *)
(*                                                                         *)
(* Characters are their UTF-16 code units (what charCodeAt returns), a     *)
(* string is a sequence of code units, and an offset is 0-based as in the  *)
(* source: the character at offset i of S is S[i + 1].                     *)
(***************************************************************************)
EXTENDS Integers, Sequences, FiniteSets, TLC

VARIABLES
    S,                   \* the input text (argument of tSax)
    pos,                 \* the cursor
    tagNameStart, tagNameEnd, tagEnd, textStart, textEnd, piTargetEnd,
    mightHaveAttributes, textIsEscaped,
    error,               \* the last diagnostic
    localNameCache, prefixCache, entityCache,
    \* what a caller observes
    input,               \* how the input text was put together
    op,                  \* the method called last
    raw,                 \* the argument of that call (text, attributes)
    ret,                 \* the value that call returned
    event,               \* the value the last next() returned
    prevPos,             \* the cursor before the last next()
    posAfterNext,        \* the cursor when the last next() returned
    nexts,               \* how many times next() was called
    onlyNext,            \* no method but next() was called so far
    hung,                \* the call made last never returns
    other                \* a second parser of the same caller, set aside

parserVars == <<pos, tagNameStart, tagNameEnd, tagEnd, textStart, textEnd,
                piTargetEnd, mightHaveAttributes, textIsEscaped, error,
                localNameCache, prefixCache, entityCache>>
callerVars == <<input, op, raw, ret, event, prevPos, posAfterNext, nexts,
                onlyNext, hung>>
vars == <<S, parserVars, callerVars, other>>

---------------------------------------------------------------------------
(* Module constants, src/tsax.js lines 411-423.                            *)

openBracketCC == 60
closeBracketCC == 62
minusCC == 45
slashCC == 47
exclamationCC == 33
questionCC == 63
openCornerBracketCC == 91
letterDCC == 68
letterxCC == 120
spaceCC == 32

\* charCodeMap(string): the set of code units mapped to true.
charCodeMap(string) == {string[i] : i \in 1..Len(string)}

nameEndChars == charCodeMap(<<32, 9, 10, 13, 47, 62, 63, 91>>)
quoteChars == charCodeMap(<<34, 39>>)
attributeNameEndChars == charCodeMap(<<61, 62>>)

---------------------------------------------------------------------------
(* The JavaScript primitives the tokenizer is written with.  An operator   *)
(* that needs an intermediate value more than once takes it as a parameter *)
(* of a second operator (named ...At, ...With, ...Of), so the value is     *)
(* written, and evaluated, once.                                           *)

\* charCodeAt and parseInt answer NaN, which no code unit equals.
NaN == 0 - 1
isNaN(n) == n = NaN

Min(a, b) == IF a < b THEN a ELSE b
Max(a, b) == IF a > b THEN a ELSE b
Clamp(n, len) == Min(Max(n, 0), len)

\* String.prototype.charCodeAt: NaN outside the string.
charCodeAt(str, i) == IF i >= 0 /\ i < Len(str) THEN str[i + 1] ELSE NaN

\* String.prototype.substring: both ends clamped to the string, and swapped
\* when the start is greater than the end.
Slice(str, a, b) == SubSeq(str, Min(a, b) + 1, Max(a, b))
substring(str, from, to) == Slice(str, Clamp(from, Len(str)), Clamp(to, Len(str)))

\* str with its first n characters removed: str.substring(n).
substringFrom(str, n) == substring(str, n, Len(str))

MatchesAt(str, needle, i) ==
    /\ i + Len(needle) <= Len(str)
    /\ \A k \in 1..Len(needle) : str[i + k] = needle[k]

\* The least offset of a set of offsets, -1 when the set is empty.
FirstOf(hits) ==
    IF hits = {} THEN 0 - 1 ELSE CHOOSE i \in hits : \A j \in hits : i <= j

\* String.prototype.indexOf(needle, from): the first offset >= from (from
\* clamped to the string) where needle occurs, -1 when there is none.
indexOf(str, needle, from) ==
    FirstOf({i \in Clamp(from, Len(str))..Len(str) : MatchesAt(str, needle, i)})

\* S[i] used as a search string: out of range it is undefined, which indexOf
\* converts to the text "undefined".
undefinedText == <<117, 110, 100, 101, 102, 105, 110, 101, 100>>
charAt(str, i) == IF i >= 0 /\ i < Len(str) THEN <<str[i + 1]>> ELSE undefinedText

\* The white space String.prototype.trim removes and parseInt skips.
WhiteSpace == {9, 10, 11, 12, 13, 32, 160, 5760, 8232, 8233, 8239, 8287,
               12288, 65279} \cup (8192..8202)

RECURSIVE trimStart(_)
trimStart(str) ==
    IF str # <<>> /\ Head(str) \in WhiteSpace THEN trimStart(Tail(str)) ELSE str

RECURSIVE trimEnd(_)
trimEnd(str) ==
    IF str # <<>> /\ str[Len(str)] \in WhiteSpace
    THEN trimEnd(SubSeq(str, 1, Len(str) - 1))
    ELSE str

trim(str) == trimEnd(trimStart(str))

\* The value of a code unit as a digit, 36 when it is no digit of any radix.
DigitOf(c) ==
    IF c >= 48 /\ c <= 57 THEN c - 48
    ELSE IF c >= 97 /\ c <= 122 THEN c - 87
    ELSE IF c >= 65 /\ c <= 90 THEN c - 55
    ELSE 36

RECURSIVE ParseDigits(_, _, _, _)
ParseDigits(str, radix, acc, seen) ==
    IF str # <<>> /\ DigitOf(Head(str)) < radix
    THEN ParseDigits(Tail(str), radix, acc * radix + DigitOf(Head(str)), TRUE)
    ELSE [value |-> acc, seen |-> seen]

\* parseInt(str, radix) for radix 10 and 16: leading white space and a sign
\* are skipped, radix 16 also skips a 0x prefix, and the longest run of
\* digits is read; without a digit the result is NaN.  The number is
\* returned as [nan, value] because a parsed value may be negative.
NumberOf(negative, d) ==
    [nan |-> ~d.seen, value |-> IF negative THEN 0 - d.value ELSE d.value]

SkipHexPrefix(u, radix) ==
    IF radix = 16 /\ Len(u) >= 2 /\ u[1] = 48 /\ u[2] \in {120, 88}
    THEN SubSeq(u, 3, Len(u)) ELSE u

parseIntTrimmed(t, radix) ==
    NumberOf(t # <<>> /\ Head(t) = 45,
             ParseDigits(SkipHexPrefix(IF t # <<>> /\ Head(t) \in {43, 45}
                                       THEN Tail(t) ELSE t, radix),
                         radix, 0, FALSE))

parseInt(str, radix) == parseIntTrimmed(trimStart(str), radix)

\* String.fromCharCode(n): the code unit n modulo 2^16.
fromCharCode(n) == <<n % 65536>>

\* The key of the accessor property that every object inherits for its
\* prototype.
protoKey == <<95, 95, 112, 114, 111, 116, 111, 95, 95>>               \* __proto__

\* object[key] = value on an object literal used as a map, value being a
\* string: under the key __proto__ the assignment calls the inherited
\* setter, which ignores a string, and the object gets no property.
Put(object, key, value) ==
    IF key = protoKey THEN object
    ELSE [k \in DOMAIN object \cup {key} |-> IF k = key THEN value ELSE object[k]]

\* The empty object {}.
EmptyObject == [k \in {} |-> <<>>]

---------------------------------------------------------------------------
(* Values handed to the caller.  A returned string is s, a returned        *)
(* attribute mapping is m (a function from names to values).               *)

Undefined == [t |-> "undefined", s |-> <<>>, m |-> EmptyObject]
String(str) == [t |-> "string", s |-> str, m |-> EmptyObject]
Mapping(attrs) == [t |-> "attributes", s |-> <<>>, m |-> attrs]
\* Object.prototype[name]: a function or an object, never a string.
Inherited(name) == [t |-> "inherited", s |-> name, m |-> EmptyObject]
ErrorMarker == [t |-> "error", s |-> <<>>, m |-> EmptyObject]
EventType(e) == [t |-> e, s |-> <<>>, m |-> EmptyObject]
Message(e) ==
    [t |-> IF e.defined THEN "message" ELSE "undefined", s |-> <<>>, m |-> EmptyObject]

\* The texts the diagnostics are built from.
closeBracketQuoted == <<39, 62, 39>>                                 \* '>'
piEndQuoted == <<39, 63, 62, 39>>                                    \* '?>'
doctypeEndText == <<100, 111, 99, 116, 121, 112, 101, 32, 101, 110, 100>>
attributeDelimitersText ==
    <<97, 116, 116, 114, 105, 98, 117, 116, 101, 32,
      100, 101, 108, 105, 109, 105, 116, 101, 114, 115>>
commentEnd == <<45, 45, 62>>                                         \* -->
cdataEnd == <<93, 93, 62>>                                           \* ]]>
openBracket == <<60>>                                                \* <
closeBracket == <<62>>                                               \* >
piEnd == <<63, 62>>                                                  \* ?>
semicolon == <<59>>
ampersand == <<38>>
newline == <<10>>

\* A diagnostic: the fixed words of the message, the text put into it, and
\* the line:column appended to it.  error is NoError while it is undefined.
NoError == [defined |-> FALSE, message |-> "", detail |-> <<>>, line |-> 0, col |-> 0]

\* The parser's closure variables as one record, which the operators below
\* take and give back with the assignments of the function they model;
\* ret is the function's return value, and hung says that it never returns.
Parser ==
    [pos |-> pos, tagNameStart |-> tagNameStart, tagNameEnd |-> tagNameEnd,
     tagEnd |-> tagEnd, textStart |-> textStart, textEnd |-> textEnd,
     piTargetEnd |-> piTargetEnd, mightHaveAttributes |-> mightHaveAttributes,
     textIsEscaped |-> textIsEscaped, error |-> error,
     entityCache |-> entityCache, ret |-> "", hung |-> FALSE]

RECURSIVE humanReadablePosLoop(_, _, _, _)
humanReadablePosLoop(errorPos, lineNumber, p, lineStartPos) ==
    IF p > 0 /\ p < errorPos
    THEN humanReadablePosLoop(errorPos, lineNumber + 1, indexOf(S, newline, p), p)
    ELSE [lineNumber |-> lineNumber, lineStartPos |-> lineStartPos]

lineAndColumn(errorPos, r) ==
    [line |-> r.lineNumber + 1, col |-> errorPos - r.lineStartPos + 1]

humanReadablePos(errorPos) ==
    lineAndColumn(errorPos, humanReadablePosLoop(errorPos, 0, 0, 0))

errAt(st, message, detail, at) ==
    [st EXCEPT !.error = [defined |-> TRUE, message |-> message,
                          detail |-> detail, line |-> at.line, col |-> at.col],
               !.ret = "error"]

err(st, errorPos, message, detail) ==
    errAt(st, message, detail, humanReadablePos(errorPos))

unexpectedEOF(st, errorPos, scanningFor) ==
    err(st, errorPos, "Unexpected end of file while scanning for ", scanningFor)

RECURSIVE posOfFirst(_, _)
posOfFirst(p, endChars) ==
    IF charCodeAt(S, p) \notin endChars /\ p < Len(S)
    THEN posOfFirst(p + 1, endChars)
    ELSE p

\* parseText without the step over the terminator (pos = textEnd).
parseTextAtKeepsTerminator(st, type, skipEnd, end, found) ==
    IF found > 0
    THEN [st EXCEPT !.textEnd = found, !.pos = found, !.ret = type]
    ELSE unexpectedEOF([st EXCEPT !.textEnd = found, !.pos = found + skipEnd],
                       st.textStart, end)

parseTextAt(st, type, skipEnd, end, found) ==
    IF found > 0
    THEN [st EXCEPT !.textEnd = found, !.pos = found + skipEnd, !.ret = type]
    ELSE unexpectedEOF([st EXCEPT !.textEnd = found, !.pos = found + skipEnd],
                       st.textStart, end)

\* parseText starting the text at the cursor, the opening delimiter
\* included.
parseTextFromOpener(st, type, skip, skipEnd, end) ==
    parseTextAt([st EXCEPT !.textStart = st.pos], type, skipEnd, end,
                indexOf(S, end, st.pos + skip))

parseText(st, type, skip, skipEnd, end) ==
    parseTextAt([st EXCEPT !.textStart = st.pos + skip], type, skipEnd, end,
                indexOf(S, end, st.pos + skip))

\* parseEndTag without the walk back over the whitespace before the >.
trimTagNameEndKeepsWhitespace(e) == e

\* The while loop of parseEndTag: NaN <= spaceCC is false.
RECURSIVE trimTagNameEnd(_)
trimTagNameEnd(e) ==
    IF ~isNaN(charCodeAt(S, e - 1)) /\ charCodeAt(S, e - 1) <= spaceCC
    THEN trimTagNameEnd(e - 1)
    ELSE e

parseEndTagAt(st, found) ==
    IF found < 0
    THEN unexpectedEOF([st EXCEPT !.tagNameStart = st.pos + 2, !.tagNameEnd = found],
                       st.pos + 2, closeBracketQuoted)
    ELSE [st EXCEPT !.tagNameStart = st.pos + 2,
                    !.pos = found + 1,
                    !.tagNameEnd = trimTagNameEnd(found),
                    !.ret = "endTag"]

parseEndTag(st) == parseEndTagAt(st, indexOf(S, closeBracket, st.pos))

\* parseStartTag that leaves the cursor at the < of the tag.
parseStartTagAtLeavesCursor(st, nameEnd, found) ==
    IF found < 0
    THEN unexpectedEOF([st EXCEPT !.tagNameStart = st.pos + 1, !.pos = nameEnd,
                                  !.tagNameEnd = nameEnd, !.tagEnd = found],
                       st.pos + 1, closeBracketQuoted)
    ELSE [st EXCEPT !.tagNameStart = st.pos + 1,
                    !.tagNameEnd = nameEnd,
                    !.tagEnd = found,
                    !.mightHaveAttributes = TRUE,
                    !.ret = IF charCodeAt(S, found - 1) = slashCC
                            THEN "singleTag" ELSE "startTag"]

parseStartTagAt(st, nameEnd, found) ==
    IF found < 0
    THEN unexpectedEOF([st EXCEPT !.tagNameStart = st.pos + 1, !.pos = nameEnd,
                                  !.tagNameEnd = nameEnd, !.tagEnd = found],
                       st.pos + 1, closeBracketQuoted)
    ELSE [st EXCEPT !.tagNameStart = st.pos + 1,
                    !.tagNameEnd = nameEnd,
                    !.tagEnd = found,
                    !.pos = found + 1,
                    !.mightHaveAttributes = TRUE,
                    !.ret = IF charCodeAt(S, found - 1) = slashCC
                            THEN "singleTag" ELSE "startTag"]

parseStartTagName(st, nameEnd) ==
    parseStartTagAt(st, nameEnd, indexOf(S, closeBracket, nameEnd))

parseStartTag(st) == parseStartTagName(st, posOfFirst(st.pos + 2, nameEndChars))

\* parseProcessingInstruction that ends the text at the ?> also when the
\* ?> directly follows the target.
parseProcessingInstructionAtUnclamped(st, targetEnd, found) ==
    IF found < 0
    THEN unexpectedEOF([st EXCEPT !.tagNameStart = st.pos + 2, !.pos = targetEnd,
                                  !.piTargetEnd = targetEnd, !.tagEnd = found],
                       st.pos + 2, piEndQuoted)
    ELSE [st EXCEPT !.tagNameStart = st.pos + 2,
                    !.piTargetEnd = targetEnd,
                    !.tagEnd = found,
                    !.textStart = targetEnd + 1,
                    !.textEnd = found,
                    !.pos = found + 2,
                    !.ret = "processingInstruction"]

\* parseProcessingInstruction starting the text at the end of the target
\* instead of one character after it.
parseProcessingInstructionAtKeepsSeparator(st, targetEnd, found) ==
    IF found < 0
    THEN unexpectedEOF([st EXCEPT !.tagNameStart = st.pos + 2, !.pos = targetEnd,
                                  !.piTargetEnd = targetEnd, !.tagEnd = found],
                       st.pos + 2, piEndQuoted)
    ELSE [st EXCEPT !.tagNameStart = st.pos + 2,
                    !.piTargetEnd = targetEnd,
                    !.tagEnd = found,
                    !.textStart = targetEnd,
                    !.textEnd = found,
                    !.pos = found + 2,
                    !.ret = "processingInstruction"]

parseProcessingInstructionAt(st, targetEnd, found) ==
    IF found < 0
    THEN unexpectedEOF([st EXCEPT !.tagNameStart = st.pos + 2, !.pos = targetEnd,
                                  !.piTargetEnd = targetEnd, !.tagEnd = found],
                       st.pos + 2, piEndQuoted)
    ELSE [st EXCEPT !.tagNameStart = st.pos + 2,
                    !.piTargetEnd = targetEnd,
                    !.tagEnd = found,
                    !.textStart = targetEnd + 1,
                    !.textEnd = IF found >= targetEnd + 1 THEN found
                                ELSE targetEnd + 1,
                    !.pos = found + 2,
                    !.ret = "processingInstruction"]

parseProcessingInstructionTarget(st, targetEnd) ==
    parseProcessingInstructionAt(st, targetEnd, indexOf(S, piEnd, targetEnd))

parseProcessingInstruction(st) ==
    parseProcessingInstructionTarget(st, posOfFirst(st.pos + 3, nameEndChars))

\* The body of the do-while loop of parseDoctype: the switch, which leaves
\* an embedded processing instruction to parseProcessingInstruction and
\* restores the two name positions after it, and then pos += 1.
doctypeEmbedsPI(st) ==
    /\ charCodeAt(S, st.pos) = openBracketCC
    /\ charCodeAt(S, st.pos + 1) = questionCC

restorePositions(st, backup) ==
    [st EXCEPT !.tagNameStart = backup.tagNameStart,
               !.tagNameEnd = backup.tagNameEnd,
               !.pos = @ + 1]

doctypeBody(st) ==
    IF doctypeEmbedsPI(st)
    THEN restorePositions(parseProcessingInstruction(st), st)
    ELSE [st EXCEPT !.pos = @ + 1]

doctypeBracketCount(st, bracketCount) ==
    IF charCodeAt(S, st.pos) = openBracketCC /\ ~doctypeEmbedsPI(st)
    THEN bracketCount + 1
    ELSE IF charCodeAt(S, st.pos) = closeBracketCC THEN bracketCount - 1
    ELSE bracketCount

\* do { body } while (bracketCount > 0 && pos < S.length)
RECURSIVE parseDoctypeLoop(_, _)
parseDoctypeWhile(st, bracketCount) ==
    IF bracketCount > 0 /\ st.pos < Len(S)
    THEN parseDoctypeLoop(st, bracketCount)
    ELSE [st |-> st, bracketCount |-> bracketCount]

parseDoctypeLoop(st, bracketCount) ==
    parseDoctypeWhile(doctypeBody(st), doctypeBracketCount(st, bracketCount))

\* parseDoctype taking the closing > into the text (textEnd = pos).
parseDoctypeEndKeepsBracket(st, bracketCount) ==
    IF bracketCount = 0
    THEN [st EXCEPT !.textStart = st.tagNameEnd, !.textEnd = st.pos,
                    !.ret = "doctype"]
    ELSE unexpectedEOF([st EXCEPT !.textStart = st.tagNameEnd, !.textEnd = st.pos],
                       st.tagNameEnd, doctypeEndText)

parseDoctypeEnd(st, bracketCount) ==
    IF bracketCount = 0
    THEN [st EXCEPT !.textStart = st.tagNameEnd, !.textEnd = st.pos - 1,
                    !.ret = "doctype"]
    ELSE unexpectedEOF([st EXCEPT !.textStart = st.tagNameEnd, !.textEnd = st.pos - 1],
                       st.tagNameEnd, doctypeEndText)

parseDoctypeScanned(r) == parseDoctypeEnd(r.st, r.bracketCount)

parseDoctypeName(st, nameEnd) ==
    parseDoctypeScanned(
        parseDoctypeLoop([st EXCEPT !.tagNameStart = st.pos + 10, !.pos = nameEnd,
                                    !.tagNameEnd = nameEnd], 1))

parseDoctype(st) == parseDoctypeName(st, posOfFirst(st.pos + 11, nameEndChars))

---------------------------------------------------------------------------
(* Entity resolution.                                                      *)

initialEntityCache ==
    (<<108, 116>> :> <<60>>)                     \* lt: "<"
    @@ (<<103, 116>> :> <<62>>)                  \* gt: ">"
    @@ (<<97, 109, 112>> :> <<38>>)              \* amp: "&"
    @@ (<<113, 117, 111, 116>> :> <<34>>)        \* quot: '"'
    @@ (<<97, 112, 111, 115>> :> <<39>>)         \* apos: "'"

\* cacheEntity that keeps the predefined entities and the newest reference
\* only.
cacheEntityCodeKeepsNewest(st, entity, charCode) ==
    IF charCode.nan
    THEN [st |-> [st EXCEPT !.ret = "undefined"], char |-> <<>>]
    ELSE [st |-> [st EXCEPT !.entityCache = Put(initialEntityCache, entity,
                                                fromCharCode(charCode.value)),
                            !.ret = "resolved"],
          char |-> fromCharCode(charCode.value)]

\* cacheEntity(entity): ret is "undefined" or "resolved", and char the
\* character then.
cacheEntityCode(st, entity, charCode) ==
    IF charCode.nan
    THEN [st |-> [st EXCEPT !.ret = "undefined"], char |-> <<>>]
    ELSE [st |-> [st EXCEPT !.entityCache = Put(@, entity, fromCharCode(charCode.value)),
                            !.ret = "resolved"],
          char |-> fromCharCode(charCode.value)]

cacheEntity(st, entity) ==
    cacheEntityCode(st, entity,
                    IF charCodeAt(entity, 1) = letterxCC
                    THEN parseInt(substringFrom(entity, 2), 16)
                    ELSE parseInt(substringFrom(entity, 1), 10))

\* entityCache[entity] || cacheEntity(entity)
resolveEntity(st, entity) ==
    IF entity \in DOMAIN st.entityCache
    THEN [st |-> [st EXCEPT !.ret = "resolved"], char |-> st.entityCache[entity]]
    ELSE cacheEntity(st, entity)

\* The while loop of unescapeText: one call of unescapeTextLoop is one pass
\* through its body.  A pass that starts at an ampIndex an earlier pass
\* started at repeats that pass for ever, text growing each time: the call
\* never returns a value (hung).  value is the returned string unless ret
\* is "undefined".
RECURSIVE unescapeTextLoop(_, _, _, _, _, _)
unescapeTextResolved(textStart_, rawText, ampIndex, semi, text1, seen, entity, resolved) ==
    IF resolved.st.ret = "undefined"
    THEN [st |-> [err(resolved.st, textStart_ + semi, "Unresolveable entity ", entity)
                  EXCEPT !.ret = "undefined"],
          value |-> <<>>]
    ELSE unescapeTextLoop(resolved.st, rawText,
                          indexOf(rawText, ampersand, semi + 1), semi,
                          text1 \o resolved.char, seen \cup {ampIndex})

unescapeTextEntity(st, rawText, ampIndex, semi, text1, seen, entity) ==
    unescapeTextResolved(
        st.textStart, rawText, ampIndex, semi, text1, seen, entity,
        resolveEntity(IF semi < 0
                      THEN err(st, st.textStart + ampIndex + 2, "Missing semicolon", <<>>)
                      ELSE st,
                      entity))

unescapeTextSemicolon(st, rawText, ampIndex, semi, text1, seen) ==
    unescapeTextEntity(st, rawText, ampIndex, semi, text1, seen,
                       substring(rawText, ampIndex + 1, semi))

unescapeTextLoop(st, rawText, ampIndex, semicolonIndex, text_, seen) ==
    IF ampIndex < 0
    THEN [st |-> [st EXCEPT !.ret = "string"],
          value |-> text_ \o substringFrom(rawText, semicolonIndex + 1)]
    ELSE IF ampIndex \in seen
    THEN [st |-> [st EXCEPT !.hung = TRUE], value |-> <<>>]
    ELSE unescapeTextSemicolon(st, rawText, ampIndex,
                               indexOf(rawText, semicolon, ampIndex + 2),
                               text_ \o substring(rawText, semicolonIndex + 1, ampIndex),
                               seen)

unescapeText(st, rawText) ==
    IF rawText = <<>> \/ indexOf(rawText, ampersand, 0) < 0
    THEN [st |-> [st EXCEPT !.ret = "string"], value |-> rawText]
    ELSE unescapeTextLoop(st, rawText, indexOf(rawText, ampersand, 0), 0 - 1, <<>>, {})

---------------------------------------------------------------------------
(* The methods of the object tSax returns: the operation each performs on  *)
(* the parser's variables, and the value it returns.                       *)

\* The text branch of next handing on parseText's result as it is.
textOrError(st) ==
    [st EXCEPT !.ret = IF st.ret = "error" THEN "error" ELSE "text"]

\* The text branch of next: running out of input is the end of the file.
textOrEof(st) ==
    [st EXCEPT !.ret = IF st.ret = "error" THEN "eof" ELSE "text"]

\* The inner switch of next, on the character after "<!".
\* The inner switch of next naming two characters in its error.
dispatchExclamationNamesTwo(st, c) ==
    IF c = minusCC THEN parseText(st, "comment", 4, 3, commentEnd)
    ELSE IF c = openCornerBracketCC THEN parseText(st, "cdata", 9, 3, cdataEnd)
    ELSE IF c = letterDCC THEN parseDoctype(st)
    ELSE err(st, st.pos, "Unexpected character sequence ",
             substring(S, st.pos, st.pos + 2))

dispatchExclamation(st, c) ==
    IF c = minusCC THEN parseText(st, "comment", 4, 3, commentEnd)
    ELSE IF c = openCornerBracketCC THEN parseText(st, "cdata", 9, 3, cdataEnd)
    ELSE IF c = letterDCC THEN parseDoctype(st)
    ELSE err(st, st.pos, "Unexpected character sequence ",
             substring(S, st.pos, st.pos + 3))

\* The outer switch of next, on the character after "<".
dispatch(st, c) ==
    IF c = slashCC THEN parseEndTag(st)
    ELSE IF c = questionCC THEN parseProcessingInstruction(st)
    ELSE IF c = exclamationCC THEN dispatchExclamation(st, charCodeAt(S, st.pos + 2))
    ELSE parseStartTag([st EXCEPT !.textIsEscaped = TRUE])

\* next() that leaves textIsEscaped as the last event set it.
resetMarkersKeepsEscaping(st) ==
    [st EXCEPT !.tagNameEnd = 0 - 1, !.textEnd = 0 - 1, !.piTargetEnd = 0 - 1,
               !.mightHaveAttributes = FALSE]

\* next() that leaves the end of the last tag name in place.
resetMarkersKeepsTagName(st) ==
    [st EXCEPT !.textEnd = 0 - 1, !.piTargetEnd = 0 - 1,
               !.mightHaveAttributes = FALSE, !.textIsEscaped = FALSE]

\* next() that leaves mightHaveAttributes as the last tag set it.
resetMarkersKeepsAttributes(st) ==
    [st EXCEPT !.tagNameEnd = 0 - 1, !.textEnd = 0 - 1, !.piTargetEnd = 0 - 1,
               !.textIsEscaped = FALSE]

resetMarkers(st) ==
    [st EXCEPT !.tagNameEnd = 0 - 1, !.textEnd = 0 - 1, !.piTargetEnd = 0 - 1,
               !.mightHaveAttributes = FALSE, !.textIsEscaped = FALSE]

nextEvent(st) ==
    IF charCodeAt(S, st.pos) # openBracketCC
    THEN textOrEof(parseText([st EXCEPT !.textIsEscaped = TRUE],
                             "text", 0, 0, openBracket))
    ELSE dispatch(st, charCodeAt(S, st.pos + 1))

next(st) == nextEvent(resetMarkers(st))

tagName(st) ==
    IF st.tagNameEnd > 0
    THEN String(substring(S, st.tagNameStart, st.tagNameEnd))
    ELSE Undefined

piTarget(st) ==
    IF st.piTargetEnd > 0
    THEN String(substring(S, st.tagNameStart, st.piTargetEnd))
    ELSE Undefined

\* The offsets of the colons of a name: split(":") cuts the name there.
ColonsOf(name) == {i \in 0..(Len(name) - 1) : name[i + 1] = 58}

\* tagName.split(":").pop() || ""
lastComponent(name) ==
    IF ColonsOf(name) = {} THEN name
    ELSE substringFrom(name, (CHOOSE i \in ColonsOf(name) :
                                  \A j \in ColonsOf(name) : j <= i) + 1)

\* nameComponents.length === 1 ? "" : nameComponents[0]
firstComponentOrEmpty(name) ==
    IF ColonsOf(name) = {} THEN <<>>
    ELSE substring(name, 0, FirstOf(ColonsOf(name)))

\* The caches are object literals ({}), so a lookup of one of these names
\* that the cache does not hold itself finds the property that every object
\* inherits from Object.prototype.
ObjectPrototypeNames ==
    { <<99, 111, 110, 115, 116, 114, 117, 99, 116, 111, 114>>,   \* constructor
      <<116, 111, 83, 116, 114, 105, 110, 103>>,   \* toString
      <<118, 97, 108, 117, 101, 79, 102>>,   \* valueOf
      <<116, 111, 76, 111, 99, 97, 108, 101, 83, 116, 114, 105, 110, 103>>,   \* toLocaleString
      <<104, 97, 115, 79, 119, 110, 80, 114, 111, 112, 101, 114, 116, 121>>,   \* hasOwnProperty
      <<105, 115, 80, 114, 111, 116, 111, 116, 121, 112, 101, 79, 102>>,   \* isPrototypeOf
      <<112, 114, 111, 112, 101, 114, 116, 121, 73, 115, 69, 110, 117, 109, 101, 114, 97, 98, 108, 101>>,   \* propertyIsEnumerable
      <<95, 95, 112, 114, 111, 116, 111, 95, 95>>,   \* __proto__
      <<95, 95, 100, 101, 102, 105, 110, 101, 71, 101, 116, 116, 101, 114, 95, 95>>,   \* __defineGetter__
      <<95, 95, 100, 101, 102, 105, 110, 101, 83, 101, 116, 116, 101, 114, 95, 95>>,   \* __defineSetter__
      <<95, 95, 108, 111, 111, 107, 117, 112, 71, 101, 116, 116, 101, 114, 95, 95>>,   \* __lookupGetter__
      <<95, 95, 108, 111, 111, 107, 117, 112, 83, 101, 116, 116, 101, 114, 95, 95>> }   \* __lookupSetter__

\* cache[tagName] || compute(tagName): an empty cached string is falsy.
Cached(cache, name) == name \in DOMAIN cache /\ cache[name] # <<>>
\* text() that takes a text it has resolved for one without references.
textResolvesOnce(st, isRaw) ==
    IF st.textEnd < 0 THEN [st |-> [st EXCEPT !.ret = "undefined"], value |-> <<>>]
    ELSE IF isRaw \/ ~st.textIsEscaped
    THEN [st |-> [st EXCEPT !.ret = "string"],
          value |-> substring(S, st.textStart, st.textEnd)]
    ELSE unescapeText([st EXCEPT !.textIsEscaped = FALSE],
                      substring(S, st.textStart, st.textEnd))

\* text(raw): value is the returned string when st.ret is "string".
text(st, isRaw) ==
    IF st.textEnd < 0 THEN [st |-> [st EXCEPT !.ret = "undefined"], value |-> <<>>]
    ELSE IF isRaw \/ ~st.textIsEscaped
    THEN [st |-> [st EXCEPT !.ret = "string"],
          value |-> substring(S, st.textStart, st.textEnd)]
    ELSE unescapeText(st, substring(S, st.textStart, st.textEnd))

\* The while (true) loop of attributes: one call of attributesLoop is one
\* pass through its body.  Which way a pass goes depends on the cursor
\* alone, so a pass that starts at a cursor an earlier pass started at
\* repeats it for ever: the call never returns (hung).
RECURSIVE attributesLoop(_, _, _, _)
attributesUnescaped(loopPos, attrs, seen, attributeName, valueEnd, unescaped) ==
    IF unescaped.st.hung \/ unescaped.st.ret = "undefined"
    THEN [st |-> unescaped.st, value |-> Undefined]
    ELSE attributesLoop([unescaped.st EXCEPT !.pos = valueEnd + 1],
                        Put(attrs, attributeName, unescaped.value),
                        FALSE, seen \cup {loopPos})

attributesValue(st, attrs, isRaw, seen, attributeName, quotePos, valueEnd) ==
    IF isRaw
    THEN attributesLoop([st EXCEPT !.pos = valueEnd + 1],
                        Put(attrs, attributeName, substring(S, quotePos + 1, valueEnd)),
                        TRUE, seen \cup {st.pos})
    ELSE attributesUnescaped(st.pos, attrs, seen, attributeName, valueEnd,
                             unescapeText([st EXCEPT !.pos = quotePos],
                                          substring(S, quotePos + 1, valueEnd)))

attributesQuote(st, attrs, isRaw, seen, attributeName, quotePos) ==
    IF quotePos >= Len(S)
    THEN [st |-> unexpectedEOF([st EXCEPT !.pos = quotePos], st.pos + 1,
                               attributeDelimitersText),
          value |-> ErrorMarker]
    ELSE attributesValue(st, attrs, isRaw, seen, attributeName, quotePos,
                         indexOf(S, charAt(S, quotePos), quotePos + 1))

\* attributes() that returns with the cursor at the > of the tag.
attributesNameStopsAtBracket(st, attrs, isRaw, seen, nameEnd) ==
    IF charCodeAt(S, nameEnd) = closeBracketCC
    THEN [st |-> [st EXCEPT !.pos = nameEnd], value |-> Mapping(attrs)]
    ELSE attributesQuote(st, attrs, isRaw, seen,
                         trim(substring(S, st.pos + 1, nameEnd)),
                         posOfFirst(nameEnd, quoteChars))

attributesName(st, attrs, isRaw, seen, nameEnd) ==
    IF charCodeAt(S, nameEnd) = closeBracketCC
    THEN [st |-> [st EXCEPT !.pos = nameEnd + 1], value |-> Mapping(attrs)]
    ELSE attributesQuote(st, attrs, isRaw, seen,
                         trim(substring(S, st.pos + 1, nameEnd)),
                         posOfFirst(nameEnd, quoteChars))

attributesLoop(st, attrs, isRaw, seen) ==
    IF st.pos \in seen
    THEN [st |-> [st EXCEPT !.hung = TRUE], value |-> Undefined]
    ELSE attributesName(st, attrs, isRaw, seen,
                        posOfFirst(st.pos, attributeNameEndChars))

\* attributes() that reads on from the cursor instead of rewinding it to
\* the end of the tag name.
attributesWithoutRewind(st, isRaw) ==
    IF ~st.mightHaveAttributes THEN [st |-> st, value |-> Undefined]
    ELSE IF st.tagEnd - st.tagNameEnd < 5 THEN [st |-> st, value |-> Mapping(EmptyObject)]
    ELSE attributesLoop(st, EmptyObject, isRaw, {})

attributes(st, isRaw) ==
    IF ~st.mightHaveAttributes THEN [st |-> st, value |-> Undefined]
    ELSE IF st.tagEnd - st.tagNameEnd < 5 THEN [st |-> st, value |-> Mapping(EmptyObject)]
    ELSE attributesLoop([st EXCEPT !.pos = st.tagNameEnd], EmptyObject, isRaw, {})

---------------------------------------------------------------------------
(* The state machine: a caller holding one parser calls its methods in any *)
(* order.                                                                  *)

\* How many next() calls a behaviour makes.
MaxNexts == 4

\* The parser's variables take the values of the record st.
Assign(st) ==
    /\ pos' = st.pos
    /\ tagNameStart' = st.tagNameStart
    /\ tagNameEnd' = st.tagNameEnd
    /\ tagEnd' = st.tagEnd
    /\ textStart' = st.textStart
    /\ textEnd' = st.textEnd
    /\ piTargetEnd' = st.piTargetEnd
    /\ mightHaveAttributes' = st.mightHaveAttributes
    /\ textIsEscaped' = st.textIsEscaped
    /\ error' = st.error
    /\ entityCache' = st.entityCache

\* The closure that tSax(str) creates: its variables, its caches and what
\* the caller has seen of it so far.
ConstructInstance(str, how) ==
    /\ S = str
    /\ input = how
    /\ pos = 0
    /\ tagNameStart = 0 - 1
    /\ tagNameEnd = 0 - 1
    /\ tagEnd = 0 - 1
    /\ textStart = 0 - 1
    /\ textEnd = 0 - 1
    /\ piTargetEnd = 0 - 1
    /\ mightHaveAttributes = FALSE
    /\ textIsEscaped = FALSE
    /\ error = NoError
    /\ localNameCache = EmptyObject
    /\ prefixCache = EmptyObject
    /\ entityCache = initialEntityCache
    /\ op = "tSax"
    /\ raw = FALSE
    /\ ret = Undefined
    /\ event = "none"
    /\ prevPos = 0
    /\ posAfterNext = 0
    /\ nexts = 0
    /\ onlyNext = TRUE
    /\ hung = FALSE

\* The caller holds no second parser.
NoInstance == <<>>

\* The state after the constructor tSax(str).
Construct(str, how) ==
    /\ ConstructInstance(str, how)
    /\ other = NoInstance

\* An accessor was called: what the caller sees of it.
Called(name, isRaw, value) ==
    /\ op' = name
    /\ raw' = isRaw
    /\ ret' = value
    /\ onlyNext' = FALSE
    /\ UNCHANGED <<S, input, event, prevPos, posAfterNext, nexts, other>>

NextReturns(st) ==
    /\ Assign(st)
    /\ event' = st.ret
    /\ ret' = EventType(st.ret)
    /\ posAfterNext' = st.pos

CallNext ==
    /\ ~hung
    /\ nexts < MaxNexts
    /\ NextReturns(next(Parser))
    /\ prevPos' = pos
    /\ nexts' = nexts + 1
    /\ op' = "next"
    /\ raw' = FALSE
    /\ UNCHANGED <<S, input, onlyNext, hung, localNameCache, prefixCache, other>>

CallTagName ==
    /\ ~hung
    /\ Called("tagName", FALSE, tagName(Parser))
    /\ UNCHANGED <<parserVars, hung>>

\* tagName && (localNameCache[tagName] || cacheLocalName(tagName))
LocalNameReturns(name) ==
    IF name.t = "undefined" \/ name.s = <<>>
    THEN /\ Called("localName", FALSE, name)
         /\ UNCHANGED localNameCache
    ELSE IF Cached(localNameCache, name.s)
    THEN /\ Called("localName", FALSE, String(localNameCache[name.s]))
         /\ UNCHANGED localNameCache
    ELSE IF name.s \in ObjectPrototypeNames
    THEN /\ Called("localName", FALSE, Inherited(name.s))
         /\ UNCHANGED localNameCache
    ELSE /\ Called("localName", FALSE, String(lastComponent(name.s)))
         /\ localNameCache' = Put(localNameCache, name.s, lastComponent(name.s))

CallLocalName ==
    /\ ~hung
    /\ LocalNameReturns(tagName(Parser))
    /\ UNCHANGED <<pos, tagNameStart, tagNameEnd, tagEnd, textStart, textEnd,
                   piTargetEnd, mightHaveAttributes, textIsEscaped, error,
                   prefixCache, entityCache, hung>>

\* tagName && (prefixCache[tagName] || cachePrefix(tagName))
PrefixReturns(name) ==
    IF name.t = "undefined" \/ name.s = <<>>
    THEN /\ Called("prefix", FALSE, name)
         /\ UNCHANGED prefixCache
    ELSE IF Cached(prefixCache, name.s)
    THEN /\ Called("prefix", FALSE, String(prefixCache[name.s]))
         /\ UNCHANGED prefixCache
    ELSE IF name.s \in ObjectPrototypeNames
    THEN /\ Called("prefix", FALSE, Inherited(name.s))
         /\ UNCHANGED prefixCache
    ELSE /\ Called("prefix", FALSE, String(firstComponentOrEmpty(name.s)))
         /\ prefixCache' = Put(prefixCache, name.s, firstComponentOrEmpty(name.s))

CallPrefix ==
    /\ ~hung
    /\ PrefixReturns(tagName(Parser))
    /\ UNCHANGED <<pos, tagNameStart, tagNameEnd, tagEnd, textStart, textEnd,
                   piTargetEnd, mightHaveAttributes, textIsEscaped, error,
                   localNameCache, entityCache, hung>>

CallPiTarget ==
    /\ ~hung
    /\ Called("piTarget", FALSE, piTarget(Parser))
    /\ UNCHANGED <<parserVars, hung>>

TextReturns(r, isRaw) ==
    /\ Assign(r.st)
    /\ hung' = r.st.hung
    /\ Called("text", isRaw,
              IF r.st.ret = "string" /\ ~r.st.hung THEN String(r.value) ELSE Undefined)

CallText ==
    /\ ~hung
    /\ \E isRaw \in BOOLEAN : TextReturns(text(Parser, isRaw), isRaw)
    /\ UNCHANGED <<localNameCache, prefixCache>>

AttributesReturns(r, isRaw) ==
    /\ Assign(r.st)
    /\ hung' = r.st.hung
    /\ Called("attributes", isRaw, r.value)

CallAttributes ==
    /\ ~hung
    /\ \E isRaw \in BOOLEAN : AttributesReturns(attributes(Parser, isRaw), isRaw)
    /\ UNCHANGED <<localNameCache, prefixCache>>

CallError ==
    /\ ~hung
    /\ Called("error", FALSE, Message(error))
    /\ UNCHANGED <<parserVars, hung>>

Next ==
    \/ CallNext
    \/ CallTagName
    \/ CallLocalName
    \/ CallPrefix
    \/ CallPiTarget
    \/ CallText
    \/ CallAttributes
    \/ CallError

---------------------------------------------------------------------------
(* The input texts.  Every specification lets the caller call the methods  *)
(* in any order; they differ in the texts the parser is constructed on.    *)

\* The first n strings of strs, joined.
RECURSIVE ConcatFirst(_, _)
ConcatFirst(strs, n) == IF n = 0 THEN <<>> ELSE ConcatFirst(strs, n - 1) \o strs[n]

Concat(strs) == ConcatFirst(strs, Len(strs))

\* The sequences of at most n elements of a set.
SeqsUpTo(set, n) == UNION {[1..k -> set] : k \in 0..n}

\* Spec: texts put together from pieces of markup, well-formed or not.
MaxFragments == 2

Fragments ==
    { <<60, 97>>,                                  \* <a
      <<60, 47, 97>>,                              \* </a
      <<62>>,                                      \* >
      <<47>>,                                      \* /
      <<60, 97, 47, 62>>,                          \* <a/>
      <<60, 33, 45, 45>>,                          \* <!--
      <<45, 45, 62>>,                              \* -->
      <<60, 33, 91, 67, 68, 65, 84, 65, 91>>,      \* <![CDATA[
      <<93, 93, 62>>,                              \* ]]>
      <<60, 63, 112>>,                             \* <?p
      <<63, 62>>,                                  \* ?>
      <<60, 63, 112, 63, 62>>,                     \* <?p?>
      <<60, 33, 68, 79, 67, 84, 89, 80, 69, 32, 100>>,   \* <!DOCTYPE d
      <<60, 33>>,                                  \* <!
      <<116>>,                                     \* t
      <<32>> }                                     \* a space

InitFragments ==
    \E parts \in SeqsUpTo(Fragments, MaxFragments) :
        Construct(Concat(parts), [family |-> "fragments", parts |-> parts])

\* Spec also takes doctype declarations: <!DOCTYPE d and pieces of an
\* internal subset after it.
MaxDeclarations == 3

doctypeStart == <<60, 33, 68, 79, 67, 84, 89, 80, 69, 32>>          \* <!DOCTYPE

DoctypeParts ==
    { <<32>>,                                      \* a space
      <<91>>,                                      \* [
      <<93>>,                                      \* ]
      <<62>>,                                      \* >
      <<60, 33, 69, 62>>,                          \* <!E>
      <<60, 63, 112, 63, 62>>,                     \* <?p?>
      <<60, 63, 113, 32, 62, 63, 62>> }            \* <?q >?>

InitDoctype ==
    \E parts \in SeqsUpTo(DoctypeParts, MaxDeclarations) :
        Construct(doctypeStart \o <<100>> \o Concat(parts),
                  [family |-> "doctype", parts |-> parts])

Init == InitFragments \/ InitDoctype

Spec == Init /\ [][Next]_vars

\* SpecDoc: documents made of whole constructs without attributes.  A
\* construct is its kind, its name or content, and its source text.
MaxConstructs == 3

StartTagOf(name, pad) ==
    [kind |-> "startTag", name |-> name, content |-> <<>>,
     source |-> <<60>> \o name \o pad \o <<62>>]

EndTagOf(name, pad) ==
    [kind |-> "endTag", name |-> name, content |-> <<>>,
     source |-> <<60, 47>> \o name \o pad \o <<62>>]

SingleTagOf(name, pad) ==
    [kind |-> "singleTag", name |-> name, content |-> <<>>,
     source |-> <<60>> \o name \o pad \o <<47, 62>>]

TextOf(content) ==
    [kind |-> "text", name |-> <<>>, content |-> content, source |-> content]

CommentOf(content) ==
    [kind |-> "comment", name |-> <<>>, content |-> content,
     source |-> <<60, 33, 45, 45>> \o content \o <<45, 45, 62>>]

CdataOf(content) ==
    [kind |-> "cdata", name |-> <<>>, content |-> content,
     source |-> <<60, 33, 91, 67, 68, 65, 84, 65, 91>> \o content \o <<93, 93, 62>>]

Constructs ==
    { StartTagOf(<<97>>, <<>>),                    \* <a>
      StartTagOf(<<98, 58, 99>>, <<32>>),          \* <b:c >
      EndTagOf(<<97>>, <<32>>),                    \* </a >
      SingleTagOf(<<97>>, <<>>),                   \* <a/>
      TextOf(<<116, 62>>),                         \* t>
      CommentOf(<<32, 99, 62>>),                   \* <!-- c>-->
      CdataOf(<<60, 100>>) }                       \* <![CDATA[<d]]>

\* A text run is followed by a construct that is no text run.
Documents ==
    {doc \in SeqsUpTo(Constructs, MaxConstructs) :
        \A i \in 1..Len(doc) :
            doc[i].kind = "text" => (i < Len(doc) /\ doc[i + 1].kind # "text")}

SourceOf(doc) == Concat([i \in 1..Len(doc) |-> doc[i].source])

InitDoc ==
    \E doc \in Documents :
        Construct(SourceOf(doc), [family |-> "document", constructs |-> doc])

SpecDoc == InitDoc /\ [][Next]_vars

\* SpecTag: one tag <a ...> with attributes b, c, ... in the forms below,
\* alone or after <r>, closed by > or />, at the end of the text or
\* followed by <c>.
MaxAttributes == 2

AttributeForm(eq, quote, value, closed) ==
    [eq |-> eq, quote |-> quote, value |-> value, closed |-> closed]

AttributeForms ==
    { AttributeForm(<<61>>, 34, <<118>>, TRUE),            \* ="v"
      AttributeForm(<<61>>, 39, <<118>>, TRUE),            \* ='v'
      AttributeForm(<<32, 61, 32>>, 34, <<>>, TRUE),       \*  = ""
      AttributeForm(<<61>>, 34, <<62>>, TRUE),             \* =">"
      AttributeForm(<<61>>, 39, <<34>>, TRUE),             \* ='"'
      AttributeForm(<<61>>, 34, <<38, 108, 116, 59>>, TRUE),   \* ="&lt;"
      AttributeForm(<<61>>, 34, <<38, 120, 59>>, TRUE),    \* ="&x;"
      AttributeForm(<<61>>, 34, <<38>>, TRUE),             \* ="&"
      AttributeForm(<<61>>, 34, <<118>>, FALSE) }          \* ="v

\* The name of the i-th attribute: b, c, ...
AttributeName(i) == <<97 + i>>

AttributeSource(i, form) ==
    <<32>> \o AttributeName(i) \o form.eq \o <<form.quote>> \o form.value
           \o (IF form.closed THEN <<form.quote>> ELSE <<>>)

TagSource(before, forms, closer, after) ==
    before \o <<60, 97>>
           \o Concat([i \in 1..Len(forms) |-> AttributeSource(i, forms[i])])
           \o closer \o after

InitTag ==
    \E before \in {<<>>, <<60, 114, 62>>},                 \* nothing, <r>
       forms \in SeqsUpTo(AttributeForms, MaxAttributes),
       closer \in {<<62>>, <<47, 62>>},                    \* >, />
       after \in {<<>>, <<60, 99, 62>>} :                  \* nothing, <c>
        Construct(TagSource(before, forms, closer, after),
                  [family |-> "tag", before |-> before, forms |-> forms,
                   closer |-> closer, after |-> after])

SpecTag == InitTag /\ [][Next]_vars

\* SpecEntity: a text of literal characters and entity references, well
\* formed or not, read as the text run before <a> or as the value of the
\* attribute b of <a b="...">.  A piece is its source and, when it is a
\* literal or a well-formed reference, the characters it stands for.
MaxPieces == 2

Piece(source, value, wellFormed) ==
    [source |-> source, value |-> value, wellFormed |-> wellFormed]

Pieces ==
    { Piece(<<97, 49>>, <<97, 49>>, TRUE),                 \* a1
      Piece(<<59>>, <<59>>, TRUE),                         \* ;
      Piece(<<62>>, <<62>>, TRUE),                         \* >
      Piece(<<38, 108, 116, 59>>, <<60>>, TRUE),           \* &lt;
      Piece(<<38, 97, 109, 112, 59>>, <<38>>, TRUE),       \* &amp;
      Piece(<<38, 103, 116, 59, 38, 113, 117, 111, 116, 59,
              38, 97, 112, 111, 115, 59>>,
            <<62, 34, 39>>, TRUE),                         \* &gt;&quot;&apos;
      Piece(<<38, 35, 54, 53, 59>>, <<65>>, TRUE),         \* &#65;
      Piece(<<38, 35, 120, 50, 48, 59>>, <<32>>, TRUE),    \* &#x20;
      Piece(<<38>>, <<>>, FALSE),                          \* &
      Piece(<<38, 97, 49, 59>>, <<>>, FALSE) }             \* &a1;

SourceOfPieces(pieces) == Concat([i \in 1..Len(pieces) |-> pieces[i].source])

ValueOfPieces(pieces) == Concat([i \in 1..Len(pieces) |-> pieces[i].value])

InitEntity ==
    \E pieces \in SeqsUpTo(Pieces, MaxPieces), place \in {"text", "attribute"} :
        Construct(IF place = "text"
                  THEN SourceOfPieces(pieces) \o <<60, 97, 62>>
                  ELSE <<60, 97, 32, 98, 61, 34>> \o SourceOfPieces(pieces)
                           \o <<34, 62>>,
                  [family |-> "entity", place |-> place, pieces |-> pieces])

SpecEntity == InitEntity /\ [][Next]_vars

\* SpecEndTag: an end tag with white space before its >, at the start of
\* the text or after a start tag or a text run, at the end of the text or
\* followed by a character.
MaxPad == 2

InitEndTag ==
    \E before \in {<<>>, <<60, 97, 62>>, <<116>>},           \* nothing, <a>, t
       name \in {<<97>>, <<98, 58, 99>>},                    \* a, b:c
       pad \in SeqsUpTo({32, 9, 10, 13}, MaxPad),
       after \in {<<>>, <<116>>} :                           \* nothing, t
        Construct(before \o <<60, 47>> \o name \o pad \o <<62>> \o after,
                  [family |-> "endTag", before |-> before, name |-> name,
                   pad |-> pad, after |-> after])

SpecEndTag == InitEndTag /\ [][Next]_vars

\* Names of up to MaxColons + 1 components, each empty, a or b, joined by
\* colons, and a name that every object inherits a property for; a tag of
\* each kind that has a name, once or twice in a row.
MaxColons == 2

RECURSIVE JoinWithColons(_)
JoinWithColons(components) ==
    IF Len(components) = 1 THEN components[1]
    ELSE components[1] \o <<58>> \o JoinWithColons(Tail(components))

Names ==
    ({ JoinWithColons(components) :
           components \in (SeqsUpTo({<<>>, <<97>>, <<98>>}, MaxColons + 1) \ {<<>>}) }
        \ {<<>>})
    \cup {<<118, 97, 108, 117, 101, 79, 102>>}               \* valueOf

NamedTag(kind, name) ==
    CASE kind = "startTag" -> <<60>> \o name \o <<62>>
      [] kind = "singleTag" -> <<60>> \o name \o <<47, 62>>
      [] kind = "endTag" -> <<60, 47>> \o name \o <<62>>
      [] kind = "doctype" -> doctypeStart \o name \o <<62>>

InitName ==
    \E name \in Names, kind \in {"startTag", "singleTag", "endTag", "doctype"},
       twice \in BOOLEAN :
        Construct(NamedTag(kind, name) \o (IF twice THEN NamedTag(kind, name) ELSE <<>>),
                  [family |-> "name", kind |-> kind, name |-> name, twice |-> twice])

SpecName == InitName /\ [][Next]_vars

\* One construct of each kind with an & in its content, alone or followed
\* by a second one.
MarkedConstructs ==
    { <<60, 98, 58, 99, 32, 100, 61, 34, 38, 35, 54, 53, 59, 38, 108, 116, 59, 34, 62>>,
          \* <b:c d="&#65;&lt;">
      <<60, 97, 32, 98, 61, 39, 38, 120, 59, 39, 47, 62>>,
          \* <a b='&x;'/>
      <<116, 38, 97, 109, 112, 59, 38, 35, 120, 50, 48, 59>>,
          \* t&amp;&#x20;
      <<116, 38>>,
          \* t&
      <<60, 63, 112, 32, 38, 113, 63, 62>>,
          \* <?p &q?>
      <<60, 33, 45, 45, 38, 99, 45, 45, 62>>,
          \* <!--&c-->
      <<60, 33, 91, 67, 68, 65, 84, 65, 91, 38, 100, 93, 93, 62>>,
          \* <![CDATA[&d]]>
      <<60, 33, 68, 79, 67, 84, 89, 80, 69, 32, 101, 32, 91, 38, 102, 59, 93, 62>>,
          \* <!DOCTYPE e [&f;]>
      <<60, 47, 98, 58, 99, 32, 62>> }
          \* </b:c >

InitMarked ==
    \E first \in MarkedConstructs, second \in MarkedConstructs \cup {<<>>} :
        Construct(first \o second,
                  [family |-> "marked", first |-> first, second |-> second])

SpecMarked == InitMarked /\ [][Next]_vars

\* A processing instruction with a target, up to MaxContent characters of
\* content and its ?>, at the start of the text, after a text run or after
\* a start tag, alone or followed by a second ?>.
MaxContent == 2

InitInstruction ==
    \E before \in {<<>>, <<116>>, <<60, 97, 62>>},           \* nothing, t, <a>
       target \in {<<112>>, <<120, 58, 121>>},               \* p, x:y
       content \in SeqsUpTo({32, 63, 62, 60, 97}, MaxContent),   \* space ? > < a
       after \in {<<>>, <<63, 62>>} :                        \* nothing, ?>
        Construct(before \o <<60, 63>> \o target \o content \o <<63, 62>> \o after,
                  [family |-> "instruction", before |-> before, target |-> target,
                   content |-> content, after |-> after])

SpecInstruction == InitInstruction /\ [][Next]_vars

\* A tag with up to MaxRepeats attributes whose names are drawn from a few,
\* so that names repeat; the value of the i-th attribute is the digit i.
MaxRepeats == 3

RepeatedSource(names, eq) ==
    Concat([i \in 1..Len(names) |-> <<32>> \o names[i] \o eq \o <<34, 48 + i, 34>>])

InitRepeated ==
    \E names \in SeqsUpTo({<<98>>, <<99>>, protoKey}, MaxRepeats),   \* b, c, __proto__
       eq \in {<<61>>, <<32, 61, 32>>},                              \* =, " = "
       closer \in {<<62>>, <<47, 62>>} :                             \* >, />
        Construct(<<60, 97>> \o RepeatedSource(names, eq) \o closer,
                  [family |-> "repeated", names |-> names, eq |-> eq,
                   closer |-> closer])

SpecRepeated == InitRepeated /\ [][Next]_vars

---------------------------------------------------------------------------
(* Two parsers.  Every call of tSax creates its own closure (src/tsax.js   *)
(* lines 462-489); the module constants of lines 411-423 are the only      *)
(* values two closures have in common, and no function writes to them.     *)
(* The variables describe the parser the caller has in hand, other the one *)
(* set aside.                                                              *)

\* The parser in hand as one value.
InstanceRecord ==
    [S |-> S, pos |-> pos, tagNameStart |-> tagNameStart,
     tagNameEnd |-> tagNameEnd, tagEnd |-> tagEnd,
     textStart |-> textStart, textEnd |-> textEnd,
     piTargetEnd |-> piTargetEnd,
     mightHaveAttributes |-> mightHaveAttributes,
     textIsEscaped |-> textIsEscaped, error |-> error,
     localNameCache |-> localNameCache, prefixCache |-> prefixCache,
     entityCache |-> entityCache, input |-> input, op |-> op,
     raw |-> raw, ret |-> ret, event |-> event, prevPos |-> prevPos,
     posAfterNext |-> posAfterNext, nexts |-> nexts,
     onlyNext |-> onlyNext, hung |-> hung]

\* The closure that tSax(str) creates, as one value.
FreshInstance(str, how) ==
    [S |-> str, pos |-> 0, tagNameStart |-> 0 - 1,
     tagNameEnd |-> 0 - 1, tagEnd |-> 0 - 1, textStart |-> 0 - 1,
     textEnd |-> 0 - 1, piTargetEnd |-> 0 - 1,
     mightHaveAttributes |-> FALSE, textIsEscaped |-> FALSE,
     error |-> NoError, localNameCache |-> EmptyObject,
     prefixCache |-> EmptyObject, entityCache |-> initialEntityCache,
     input |-> how, op |-> "tSax", raw |-> FALSE, ret |-> Undefined,
     event |-> "none", prevPos |-> 0, posAfterNext |-> 0,
     nexts |-> 0, onlyNext |-> TRUE, hung |-> FALSE]

\* The parser taken in hand carries the error of the one put down.
TakeUpKeepsError(i) ==
    /\ S' = i.S
    /\ pos' = i.pos
    /\ tagNameStart' = i.tagNameStart
    /\ tagNameEnd' = i.tagNameEnd
    /\ tagEnd' = i.tagEnd
    /\ textStart' = i.textStart
    /\ textEnd' = i.textEnd
    /\ piTargetEnd' = i.piTargetEnd
    /\ mightHaveAttributes' = i.mightHaveAttributes
    /\ textIsEscaped' = i.textIsEscaped
    /\ error' = error
    /\ localNameCache' = i.localNameCache
    /\ prefixCache' = i.prefixCache
    /\ entityCache' = i.entityCache
    /\ input' = i.input
    /\ op' = i.op
    /\ raw' = i.raw
    /\ ret' = i.ret
    /\ event' = i.event
    /\ prevPos' = i.prevPos
    /\ posAfterNext' = i.posAfterNext
    /\ nexts' = i.nexts
    /\ onlyNext' = i.onlyNext
    /\ hung' = i.hung

\* The caller takes the parser i in hand.
TakeUp(i) ==
    /\ S' = i.S
    /\ pos' = i.pos
    /\ tagNameStart' = i.tagNameStart
    /\ tagNameEnd' = i.tagNameEnd
    /\ tagEnd' = i.tagEnd
    /\ textStart' = i.textStart
    /\ textEnd' = i.textEnd
    /\ piTargetEnd' = i.piTargetEnd
    /\ mightHaveAttributes' = i.mightHaveAttributes
    /\ textIsEscaped' = i.textIsEscaped
    /\ error' = i.error
    /\ localNameCache' = i.localNameCache
    /\ prefixCache' = i.prefixCache
    /\ entityCache' = i.entityCache
    /\ input' = i.input
    /\ op' = i.op
    /\ raw' = i.raw
    /\ ret' = i.ret
    /\ event' = i.event
    /\ prevPos' = i.prevPos
    /\ posAfterNext' = i.posAfterNext
    /\ nexts' = i.nexts
    /\ onlyNext' = i.onlyNext
    /\ hung' = i.hung

\* The caller puts the parser in hand down and goes on with the other one.
\* No call is under way then: a call that never returns stops the caller.
TurnToOther ==
    /\ ~hung
    /\ other # NoInstance
    /\ TakeUp(other)
    /\ other' = InstanceRecord

NextOfTwo == Next \/ TurnToOther

\* SpecTwo: two parsers over two of these texts, their calls interleaved.
TwoInputs ==
    { <<60, 97, 58, 98, 32, 99, 61, 34, 38, 35, 54, 53, 59, 34, 62>>,  \* <a:b c="&#65;">
      <<116, 38, 120, 59>>,                                    \* t&x;
      <<60, 33, 116>> }                                        \* <!t

InitTwo ==
    \E first \in TwoInputs, second \in TwoInputs :
        /\ ConstructInstance(first, [family |-> "two", first |-> first, second |-> second])
        /\ other = FreshInstance(second, [family |-> "two", first |-> first, second |-> second])

SpecTwo == InitTwo /\ [][NextOfTwo]_vars


\* SpecAccessors: a caller who never calls attributes(), on the texts of
\* SpecMarked.
NextWithoutAttributes ==
    \/ CallNext
    \/ CallTagName
    \/ CallLocalName
    \/ CallPrefix
    \/ CallPiTarget
    \/ CallText
    \/ CallError

SpecAccessors == InitMarked /\ [][NextWithoutAttributes]_vars

\* SpecPlain: one or two tags whose attributes, where they have any, are a
\* name, an = with or without whitespace around it and a quoted value
\* without & and >; some leave fewer than 5 characters between the name and
\* the end of the tag.
PlainTags ==
    { <<60, 97, 62>>,
          \* <a>
      <<60, 97, 47, 62>>,
          \* <a/>
      <<60, 97, 98, 32, 32, 32, 47, 62>>,
          \* <ab   />
      <<60, 97, 32, 98, 61, 34, 34, 62>>,
          \* <a b="">
      <<60, 97, 32, 98, 61, 34, 118, 34, 32, 99, 32, 61, 32, 39, 39, 47, 62>>,
          \* <a b="v" c = ''/>
      <<60, 97, 58, 98, 32, 99, 58, 100, 61, 39, 34, 61, 39, 32, 62>>,
          \* <a:b c:d='"=' >
      <<60, 97, 10, 98, 61, 34, 118, 34, 10, 99, 61, 34, 119, 34, 62>>,
          \* <a\nb="v"\nc="w">
      <<60, 97, 32, 32, 32, 32, 32, 32, 62>> }
          \* <a      >

InitPlain ==
    \E first \in PlainTags, second \in PlainTags \cup {<<>>} :
        Construct(first \o second,
                  [family |-> "plain", first |-> first, second |-> second])

SpecPlain == InitPlain /\ [][Next]_vars

\* SpecNumeric: a text of numeric character references, decimal and
\* hexadecimal, below and above 0xFFFF, before the tag <a>.
NumericReferences ==
    { <<116>>,                                            \* t
      <<38, 35, 54, 53, 59>>,                             \* &#65;
      <<38, 35, 120, 52, 49, 59>>,                        \* &#x41;
      <<38, 35, 120, 70, 70, 70, 70, 59>>,                \* &#xFFFF;
      <<38, 35, 120, 49, 48, 48, 48, 48, 59>>,            \* &#x10000;
      <<38, 35, 54, 53, 54, 48, 49, 59>>,                 \* &#65601;
      <<38, 35, 120, 49, 70, 54, 48, 48, 59>> }           \* &#x1F600;

InitNumeric ==
    \E pieces \in SeqsUpTo(NumericReferences, MaxPieces) :
        Construct(Concat(pieces) \o <<60, 97, 62>>,
                  [family |-> "numeric", pieces |-> pieces])

SpecNumeric == InitNumeric /\ [][Next]_vars

---------------------------------------------------------------------------
(* The claims.                                                             *)

unexpectedEOFText == "Unexpected end of file while scanning for "

\* The last next() returned a start tag or a self-closing tag.
AfterTag == event \in {"startTag", "singleTag"}

\* C1: for an input that begins with a well-formed start tag with n >= 1
\* attributes of distinct names, whose values contain neither their own
\* quote character nor < nor &, next() returns startTag, tagName() returns
\* the tag name and attributes() returns exactly the mapping of the names
\* to the values.
WellFormedStartTag ==
    /\ input.before = <<>>
    /\ input.closer = <<62>>
    /\ Len(input.forms) >= 1
    /\ \A i \in 1..Len(input.forms) :
          /\ input.forms[i].closed
          /\ \A k \in 1..Len(input.forms[i].value) :
                input.forms[i].value[k] \notin {input.forms[i].quote, 60, 38}

ExpectedAttributes ==
    [name \in {AttributeName(i) : i \in 1..Len(input.forms)} |->
        input.forms[CHOOSE i \in 1..Len(input.forms) : AttributeName(i) = name].value]

C1_StartTagWithAttributes ==
    (nexts = 1 /\ WellFormedStartTag) =>
        /\ event = "startTag"
        /\ op = "tagName" => ret = String(<<97>>)
        /\ op = "attributes" => ret = Mapping(ExpectedAttributes)

\* C2: for a document that is a concatenation of attribute-free start
\* tags, end tags, self-closing tags, non-empty text runs (each followed by
\* another construct), comments and CDATA sections, the i-th next() returns
\* the kind of the i-th construct, tagName() or text(true) called then
\* returns that construct's name or content, and the next() after the last
\* construct returns eof.
C2_OneEventPerConstruct ==
    /\ nexts \in 1..Len(input.constructs) =>
          /\ event = input.constructs[nexts].kind
          /\ (op = "tagName" /\ event \in {"startTag", "endTag", "singleTag"}) =>
                ret = String(input.constructs[nexts].name)
          /\ (op = "text" /\ raw /\ event \in {"text", "comment", "cdata"}) =>
                ret = String(input.constructs[nexts].content)
    /\ nexts = Len(input.constructs) + 1 => event = "eof"

\* A start tag, a text run and a CDATA section were read in this order, and
\* text(true) has returned the content of the CDATA section.
C2_Witness ==
    /\ Len(input.constructs) = 3
    /\ input.constructs[1].kind = "startTag"
    /\ input.constructs[2].kind = "text"
    /\ input.constructs[3].kind = "cdata"
    /\ nexts = 3
    /\ op = "text"
    /\ raw
    /\ ret = String(<<60, 100>>)

\* C3: when attributes() is called after a startTag or singleTag event and
\* returns (a mapping, undefined or the error marker), the cursor is where
\* the preceding next() left it.
C3_AttributesRestoresCursor ==
    (op = "attributes" /\ ~hung /\ AfterTag) => pos = posAfterNext

\* C4: in a sequence of next() calls with no accessor call in between, the
\* cursor after each call is greater than or equal to the cursor before
\* it, also when the call returns eof or error.
C4_CursorNeverMovesBack ==
    (op = "next" /\ onlyNext) => pos >= prevPos

\* C5: once next() has returned eof, every later next() returns eof.
C5_EofIsTerminal ==
    [][event = "eof" => event' = "eof"]_vars

\* C6: if the input at the cursor opens a comment, a CDATA section, a
\* processing instruction, a doctype, a start tag or an end tag, and the
\* terminator of that construct (-->, ]]>, ?>, a depth-balancing >, >) does
\* not occur in the rest of the input, next() returns error and error()
\* names the terminator sought.
OpensAt(p, opener) == p >= 0 /\ MatchesAt(S, opener, p)

OpensStartTagAt(p) ==
    /\ OpensAt(p, <<60>>)
    /\ p + 1 < Len(S)
    /\ charCodeAt(S, p + 1) \notin {slashCC, questionCC, exclamationCC}

Lacks(p, terminator) == indexOf(S, terminator, p) < 0

\* The > that closes a doctype occurs at offset i or later, depth brackets
\* being open at i: < opens one and > closes one, except that a processing
\* instruction <?...?> is passed over as a whole (and that <? without ?>
\* opens nothing).  The count starts where the doctype's name ends.
RECURSIVE DoctypeCloses(_, _)
DoctypeCloses(i, depth) ==
    IF i >= Len(S) THEN FALSE
    ELSE IF MatchesAt(S, <<60, 63>>, i) /\ indexOf(S, piEnd, i + 2) >= 0
    THEN DoctypeCloses(indexOf(S, piEnd, i + 2) + 2, depth)
    ELSE IF MatchesAt(S, <<60, 63>>, i) THEN DoctypeCloses(i + 2, depth)
    ELSE IF S[i + 1] = openBracketCC THEN DoctypeCloses(i + 1, depth + 1)
    ELSE IF S[i + 1] = closeBracketCC
    THEN depth = 1 \/ DoctypeCloses(i + 1, depth - 1)
    ELSE DoctypeCloses(i + 1, depth)

ReportsEndOfFile(sought) ==
    /\ event = "error"
    /\ error.defined
    /\ error.message = unexpectedEOFText
    /\ error.detail = sought

C6_MissingTerminatorIsError ==
    op = "next" =>
        /\ (OpensAt(prevPos, <<60, 33, 45, 45>>) /\ Lacks(prevPos, commentEnd)) =>
              ReportsEndOfFile(commentEnd)
        /\ (OpensAt(prevPos, <<60, 33, 91, 67, 68, 65, 84, 65, 91>>)
                /\ Lacks(prevPos, cdataEnd)) =>
              ReportsEndOfFile(cdataEnd)
        /\ (OpensAt(prevPos, <<60, 63>>) /\ Lacks(prevPos, piEnd)) =>
              ReportsEndOfFile(piEndQuoted)
        /\ (OpensAt(prevPos, doctypeStart)
                /\ ~DoctypeCloses(posOfFirst(prevPos + 11, nameEndChars), 1)) =>
              ReportsEndOfFile(doctypeEndText)
        /\ (OpensStartTagAt(prevPos) /\ Lacks(prevPos, closeBracket)) =>
              ReportsEndOfFile(closeBracketQuoted)
        /\ (OpensAt(prevPos, <<60, 47>>) /\ Lacks(prevPos, closeBracket)) =>
              ReportsEndOfFile(closeBracketQuoted)

\* C7: if the cursor is within [0, |S|] and no < occurs at or after the
\* cursor, next() returns eof.
NoMarkupFrom(p) ==
    /\ p \in 0..Len(S)
    /\ \A i \in p..(Len(S) - 1) : S[i + 1] # openBracketCC

C7_NoMarkupLeftIsEof ==
    (op = "next" /\ NoMarkupFrom(prevPos)) => event = "eof"

\* next() was called with the cursor inside the text, after a construct,
\* where only characters other than < were left, and has returned eof.
C7_Witness ==
    /\ op = "next"
    /\ nexts >= 2
    /\ prevPos > 0
    /\ prevPos < Len(S)
    /\ NoMarkupFrom(prevPos)
    /\ event = "eof"

\* C8: every call of every method terminates and returns a value.
C8_EveryCallReturns == ~hung

\* C9: when attributes() is called after a startTag or singleTag event
\* whose interior contains = followed by an opening quote whose closing
\* quote occurs nowhere in the rest of the input, it returns the error
\* marker and error() reports the end of input while scanning for
\* attribute delimiters.
UnclosedQuoteAfter(i) ==
    /\ charCodeAt(S, i) = 61
    /\ posOfFirst(i, quoteChars) < tagEnd
    /\ indexOf(S, charAt(S, posOfFirst(i, quoteChars)),
               posOfFirst(i, quoteChars) + 1) < 0

C9_UnclosedQuoteIsError ==
    (op = "attributes" /\ AfterTag
        /\ \E i \in tagNameEnd..(tagEnd - 1) : UnclosedQuoteAfter(i)) =>
        /\ ret = ErrorMarker
        /\ error.defined
        /\ error.message = unexpectedEOFText
        /\ error.detail = attributeDelimitersText

\* C10: when attributes() is called without raw and resolving the entities
\* of an attribute value fails, it returns the error marker and error()
\* returns the diagnostic.  The tags taken are those whose attributes are
\* all delimited and free of >, read by the first next() that reaches them.
DelimitedAttributes ==
    \A i \in 1..Len(input.forms) :
        /\ input.forms[i].closed
        /\ \A k \in 1..Len(input.forms[i].value) :
              input.forms[i].value[k] \notin {input.forms[i].quote, 62}

FailsToResolve(value) == unescapeText(Parser, value).st.ret = "undefined"

C10_UnresolvedEntityIsError ==
    (op = "attributes" /\ ~raw /\ AfterTag /\ DelimitedAttributes
        /\ nexts = (IF input.before = <<>> THEN 1 ELSE 2)
        /\ \E i \in 1..Len(input.forms) : FailsToResolve(input.forms[i].value)) =>
        /\ ret = ErrorMarker
        /\ error.defined

\* The raw text of the current event: S.substring(textStart, textEnd).
RawText == substring(S, textStart, textEnd)

\* C11: for a text event whose raw text contains an & with no ; after it,
\* text() without raw returns undefined and error() holds a diagnostic
\* about the reference (the missing semicolon, or the entity that cannot be
\* resolved); no string is returned.
AmpersandWithoutSemicolon(str) ==
    \E i \in 1..Len(str) :
        /\ str[i] = 38
        /\ \A j \in (i + 1)..Len(str) : str[j] # 59

C11_MissingSemicolonIsUndefined ==
    (op = "text" /\ ~raw /\ event = "text" /\ AmpersandWithoutSemicolon(RawText)) =>
        /\ ~hung
        /\ ret = Undefined
        /\ error.defined
        /\ error.message \in {"Missing semicolon", "Unresolveable entity "}

\* The names of the five entities that the cache holds from the start.
PredefinedNames == DOMAIN initialEntityCache

\* str holds a reference &name; whose name is not predefined and does not
\* start with #.
HasUnknownNamedReference(str) ==
    \E i \in 1..Len(str) : \E j \in (i + 2)..Len(str) :
        /\ str[i] = 38
        /\ str[j] = 59
        /\ \A k \in (i + 1)..(j - 1) : str[k] \notin {38, 59}
        /\ SubSeq(str, i + 1, j - 1) \notin PredefinedNames
        /\ str[i + 1] # 35

\* C12: for a text event whose raw text contains a reference &name; with a
\* name that is none of lt, gt, amp, quot, apos and does not start with #,
\* text() without raw returns undefined and error() names the entity that
\* cannot be resolved.
C12_UnknownEntityIsUndefined ==
    (op = "text" /\ ~raw /\ event = "text" /\ HasUnknownNamedReference(RawText)) =>
        /\ ret = Undefined
        /\ error.defined
        /\ error.message = "Unresolveable entity "

\* Every piece of the input is literal text or a well-formed reference.
WellFormedPieces == \A i \in 1..Len(input.pieces) : input.pieces[i].wellFormed

\* C13: a text event or an attribute value made of literal characters and
\* well-formed references (the five predefined ones, decimal and
\* hexadecimal ones up to 0xFFFF) is returned verbatim by text(true) and
\* attributes(true), and with every reference replaced by its character by
\* text() and attributes().
C13_WellFormedReferencesResolve ==
    (WellFormedPieces /\ nexts = 1) =>
        /\ (input.place = "text" /\ op = "text" /\ event = "text") =>
               ret = String(IF raw THEN SourceOfPieces(input.pieces)
                                   ELSE ValueOfPieces(input.pieces))
        /\ (input.place = "attribute" /\ op = "attributes") =>
               ret = Mapping(<<98>> :> (IF raw THEN SourceOfPieces(input.pieces)
                                               ELSE ValueOfPieces(input.pieces)))

\* C14: error() returns undefined whenever the most recent next() returned
\* an event other than error, eof included.
C14_ErrorOnlyAfterErrorEvent ==
    (op = "error" /\ event # "error") => ret = Undefined

\* C15: after a text, comment, cdata or processingInstruction event
\* tagName(), localName() and prefix() return undefined, and after a
\* startTag, singleTag or endTag event text() and text(true) return
\* undefined.
C15_AccessorsOfOtherEvents ==
    /\ (op \in {"tagName", "localName", "prefix"}
            /\ event \in {"text", "comment", "cdata", "processingInstruction"}) =>
           ret = Undefined
    /\ (op = "text" /\ event \in {"startTag", "singleTag", "endTag"}) =>
           ret = Undefined

\* tagName() after the processing instruction of <a/><?p?>.
C15_Witness ==
    /\ S = <<60, 97, 47, 62, 60, 63, 112, 63, 62>>
    /\ nexts = 2
    /\ event = "processingInstruction"
    /\ op = "tagName"
    /\ ret = Undefined

\* C16: piTarget() returns undefined whenever the most recent next()
\* returned an event other than processingInstruction, a doctype with an
\* embedded processing instruction included.
C16_PiTargetOnlyAfterPI ==
    (op = "piTarget" /\ event # "processingInstruction") => ret = Undefined

\* C17: attributes() returns undefined whenever the most recent next()
\* returned an event other than startTag or singleTag.
C17_AttributesOnlyAfterTag ==
    (op = "attributes" /\ event \notin {"startTag", "singleTag"}) => ret = Undefined

\* attributes() after the tag of <a/>t has been passed.
C17_Witness ==
    /\ S = <<60, 97, 47, 62, 116>>
    /\ nexts = 2
    /\ event = "eof"
    /\ op = "attributes"
    /\ ret = Undefined

\* C18: after an error or eof event tagName(), localName(), prefix(),
\* piTarget(), text() and attributes() all return undefined.
C18_NothingAfterErrorOrEof ==
    (event \in {"error", "eof"}
        /\ op \in {"tagName", "localName", "prefix", "piTarget", "text", "attributes"}) =>
        ret = Undefined

\* The tag of the input is well-formed: every attribute value is closed
\* and contains neither its own quote character nor < nor &.
WellFormedTag ==
    \A i \in 1..Len(input.forms) :
        /\ input.forms[i].closed
        /\ \A k \in 1..Len(input.forms[i].value) :
              input.forms[i].value[k] \notin {input.forms[i].quote, 60, 38}

\* The number of the next() that reads the tag of the input.
TagIndex == IF input.before = <<>> THEN 1 ELSE 2

\* C19: for a well-formed empty-element tag next() returns singleTag, for
\* a well-formed start tag whose closing > is not preceded by / it returns
\* startTag, and in both cases tagName() returns the name, which ends at
\* the first whitespace, /, >, ? or [ after its first character.
C19_TagKindAndName ==
    (WellFormedTag /\ nexts = TagIndex) =>
        /\ event = (IF input.closer = <<47, 62>> THEN "singleTag" ELSE "startTag")
        /\ op = "tagName" => ret = String(<<97>>)

\* The number of the next() that reads the end tag of the input.
EndTagIndex == IF input.before = <<>> THEN 1 ELSE 2

\* C20: for </name, zero or more whitespace characters and > at the
\* cursor, next() returns endTag, tagName() returns the name without the
\* trailing whitespace, and the cursor is left just past the >.
C20_EndTag ==
    (nexts = EndTagIndex) =>
        /\ event = "endTag"
        /\ op = "next" =>
               pos = Len(input.before) + 2 + Len(input.name) + Len(input.pad) + 1
        /\ op = "tagName" => ret = String(input.name)

\* tagName() after an end tag with two whitespace characters before its >,
\* read by the second next().
C20_Witness ==
    /\ input.before # <<>>
    /\ Len(input.pad) = 2
    /\ nexts = 2
    /\ event = "endTag"
    /\ op = "tagName"
    /\ ret = String(input.name)

\* The part of a name before its first colon, empty when it has none, and
\* the part after its last colon, all of it when it has none.
BeforeFirstColon(n) ==
    IF \E i \in 1..Len(n) : n[i] = 58
    THEN SubSeq(n, 1, (CHOOSE i \in 1..Len(n) :
                           n[i] = 58 /\ \A j \in 1..(i - 1) : n[j] # 58) - 1)
    ELSE <<>>

AfterLastColon(n) ==
    IF \E i \in 1..Len(n) : n[i] = 58
    THEN SubSeq(n, (CHOOSE i \in 1..Len(n) :
                        n[i] = 58 /\ \A j \in (i + 1)..Len(n) : n[j] # 58) + 1, Len(n))
    ELSE n

\* C21: whenever tagName() returns a non-empty name after a startTag,
\* singleTag, endTag or doctype event, prefix() returns the part of the
\* name before its first colon and localName() the part after its last
\* colon.
C21_PrefixAndLocalName ==
    (event \in {"startTag", "singleTag", "endTag", "doctype"}
        /\ tagName(Parser).t = "string" /\ tagName(Parser).s # <<>>) =>
        /\ op = "prefix" => ret = String(BeforeFirstColon(tagName(Parser).s))
        /\ op = "localName" => ret = String(AfterLastColon(tagName(Parser).s))

\* What each accessor returns when it is called in the current state;
\* NeverReturns stands for a call that does not return.
NeverReturns == [t |-> "never", s |-> <<>>, m |-> EmptyObject]

NameValue(name, cache, compute) ==
    IF name.t = "undefined" \/ name.s = <<>> THEN name
    ELSE IF Cached(cache, name.s) THEN String(cache[name.s])
    ELSE IF name.s \in ObjectPrototypeNames THEN Inherited(name.s)
    ELSE String(compute)

TextValue(r) ==
    IF r.st.hung THEN NeverReturns
    ELSE IF r.st.ret = "string" THEN String(r.value)
    ELSE Undefined

AttributesValue(r) == IF r.st.hung THEN NeverReturns ELSE r.value

ReturnValue(st, localNames, prefixes, name, isRaw) ==
    CASE name = "tagName" -> tagName(st)
      [] name = "localName" ->
             NameValue(tagName(st), localNames, lastComponent(tagName(st).s))
      [] name = "prefix" ->
             NameValue(tagName(st), prefixes, firstComponentOrEmpty(tagName(st).s))
      [] name = "piTarget" -> piTarget(st)
      [] name = "text" -> TextValue(text(st, isRaw))
      [] name = "attributes" -> AttributesValue(attributes(st, isRaw))

ReturnValuesAt(st, localNames, prefixes) ==
    [call \in {"tagName", "localName", "prefix", "piTarget", "text", "attributes"}
              \X BOOLEAN |->
        ReturnValue(st, localNames, prefixes, call[1], call[2])]

\* C22: between two next() calls the accessors are idempotent: calling
\* tagName(), localName(), prefix(), piTarget(), text(raw) or
\* attributes(raw) again right after it has returned gives an equal value,
\* and no call of an accessor changes what any of them returns, so a
\* repeated call returns an equal value whatever accessors are called in
\* between.
C22_AccessorsAreIdempotent ==
    /\ []((op \in {"tagName", "localName", "prefix", "piTarget", "text", "attributes"}
              /\ ~hung) =>
             ret = ReturnValue(Parser, localNameCache, prefixCache, op, raw))
    /\ [][(nexts' = nexts /\ ~hung') =>
              \/ UNCHANGED parserVars
              \/ ReturnValuesAt(Parser', localNameCache', prefixCache')
                     = ReturnValuesAt(Parser, localNameCache, prefixCache)]_vars

\* attributes(true) called on the first tag after attributes() has
\* resolved its &#65;.
C22_Witness ==
    /\ nexts = 1
    /\ event = "startTag"
    /\ <<35, 54, 53>> \in DOMAIN entityCache
    /\ op = "attributes"
    /\ raw
    /\ ret = Mapping(<<100>> :> <<38, 35, 54, 53, 59, 38, 108, 116, 59>>)

\* The offset where the name of the doctype declaration at p ends: that of
\* the first name terminator at offset p + 10 or later, -1 without one.
DoctypeNameEnd(p) ==
    FirstOf({i \in (p + 10)..(Len(S) - 1) : S[i + 1] \in nameEndChars})

\* The number of < less the number of > at the offsets a to i, plus the one
\* < of <!DOCTYPE.
DepthAfter(a, i) ==
    1 + Cardinality({k \in a..i : S[k + 1] = 60}) - Cardinality({k \in a..i : S[k + 1] = 62})

\* The offset of the > that matches the < of <!DOCTYPE, counting from a,
\* -1 without one.
MatchingClose(a) ==
    FirstOf({i \in a..(Len(S) - 1) : S[i + 1] = 62 /\ DepthAfter(a, i) = 0})

\* A doctype declaration <!DOCTYPE name rest> starts at p, name is not
\* empty, rest is balanced and holds no processing instruction.
PlainDoctypeAt(p) ==
    /\ OpensAt(p, doctypeStart)
    /\ DoctypeNameEnd(p) > p + 10
    /\ MatchingClose(DoctypeNameEnd(p)) >= 0
    /\ \A i \in DoctypeNameEnd(p)..MatchingClose(DoctypeNameEnd(p)) :
           ~MatchesAt(S, <<60, 63>>, i)

RECURSIVE DoctypeCloseAt(_, _)
DoctypeCloseAt(i, depth) ==
    IF i >= Len(S) THEN 0 - 1
    ELSE IF MatchesAt(S, <<60, 63>>, i) /\ indexOf(S, piEnd, i + 2) >= 0
    THEN DoctypeCloseAt(indexOf(S, piEnd, i + 2) + 2, depth)
    ELSE IF MatchesAt(S, <<60, 63>>, i) THEN 0 - 1
    ELSE IF S[i + 1] = openBracketCC THEN DoctypeCloseAt(i + 1, depth + 1)
    ELSE IF S[i + 1] = closeBracketCC
    THEN IF depth = 1 THEN i ELSE DoctypeCloseAt(i + 1, depth - 1)
    ELSE DoctypeCloseAt(i + 1, depth)

\* C24: while a doctype is scanned every < and > outside an embedded
\* processing instruction changes the depth by one and no character of an
\* embedded processing instruction changes it, so the doctype event ends
\* exactly at the first > outside embedded processing instructions at
\* which the depth, starting at 1, reaches 0.
C24_DoctypeDepth ==
    (nexts > 0 /\ OpensAt(prevPos, doctypeStart)
        /\ DoctypeNameEnd(prevPos) > prevPos + 10
        /\ DoctypeCloseAt(DoctypeNameEnd(prevPos), 1) >= 0) =>
        /\ event = "doctype"
        /\ posAfterNext = DoctypeCloseAt(DoctypeNameEnd(prevPos), 1) + 1

\* The offset where the target of the processing instruction at p ends:
\* that of the first name terminator at offset p + 2 or later.
InstructionTargetEnd(p) ==
    FirstOf({i \in (p + 2)..(Len(S) - 1) : S[i + 1] \in nameEndChars})

\* The offset of the first ?> at or after the end of the target.
InstructionClose(p) ==
    FirstOf({i \in InstructionTargetEnd(p)..(Len(S) - 2) :
                 S[i + 1] = 63 /\ S[i + 2] = 62})

\* C25: for a processing instruction <?target content?> at the cursor
\* next() returns processingInstruction, piTarget() returns the characters
\* after <? up to the first name terminator, text() returns the characters
\* from one position after the target end up to the first ?> at or after
\* the target end (the empty string when that ?> starts at or right after
\* the target end), and the cursor is just past that ?>.
C25_ProcessingInstruction ==
    (nexts > 0 /\ OpensAt(prevPos, <<60, 63>>)
        /\ InstructionTargetEnd(prevPos) > prevPos + 2
        /\ InstructionClose(prevPos) >= 0) =>
        /\ event = "processingInstruction"
        /\ posAfterNext = InstructionClose(prevPos) + 2
        /\ op = "next" => pos = posAfterNext
        /\ op = "piTarget" =>
               ret = String(SubSeq(S, prevPos + 3, InstructionTargetEnd(prevPos)))
        /\ op = "text" =>
               ret = String(IF InstructionClose(prevPos) <= InstructionTargetEnd(prevPos) + 1
                            THEN <<>>
                            ELSE SubSeq(S, InstructionTargetEnd(prevPos) + 2,
                                        InstructionClose(prevPos)))

\* text() after the processing instruction of <a><?x:y a?>.
C25_Witness ==
    /\ S = <<60, 97, 62, 60, 63, 120, 58, 121, 32, 97, 63, 62>>
    /\ event = "processingInstruction"
    /\ op = "text"
    /\ ret = String(<<97>>)

\* The offset of the first occurrence of terminator at offset from or
\* later, -1 without one.
FirstOccurrence(terminator, from) ==
    FirstOf({i \in from..Len(S) : MatchesAt(S, terminator, i)})

\* next() was called at cursor p, where a run of the kind starts whose
\* terminator occurs at p + skip or later: it returned the kind, left the
\* cursor skipEnd past the first such occurrence, and text(true) is the
\* slice from p + skip to that occurrence.
ScansUntil(p, kind, skip, skipEnd, terminator) ==
    FirstOccurrence(terminator, p + skip) >= 0 =>
        /\ event = kind
        /\ posAfterNext = FirstOccurrence(terminator, p + skip) + skipEnd
        /\ op = "next" => pos = posAfterNext
        /\ (op = "text" /\ raw) =>
               ret = String(SubSeq(S, p + skip + 1, FirstOccurrence(terminator, p + skip)))

\* C26: for a text run (skip 0, terminator <), a comment (skip 4,
\* terminator -->) and a CDATA section (skip 9, terminator ]]>) that starts
\* at cursor p and whose terminator occurs at p + skip or later, next()
\* returns the kind, text(true) is the slice from p + skip to the first
\* such occurrence, and the cursor is left at the < for text and just past
\* the terminator for comment and CDATA.
C26_ScanUntilTerminator ==
    (nexts > 0 /\ prevPos >= 0 /\ prevPos < Len(S)) =>
        /\ S[prevPos + 1] # 60 => ScansUntil(prevPos, "text", 0, 0, <<60>>)
        /\ OpensAt(prevPos, <<60, 33, 45, 45>>) =>
               ScansUntil(prevPos, "comment", 4, 3, <<45, 45, 62>>)
        /\ OpensAt(prevPos, <<60, 33, 91, 67, 68, 65, 84, 65, 91>>) =>
               ScansUntil(prevPos, "cdata", 9, 3, <<93, 93, 62>>)

\* text(true) after the third construct of a document, a comment.
C26_Witness ==
    /\ nexts = 3
    /\ prevPos > 0
    /\ event = "comment"
    /\ op = "text"
    /\ raw
    /\ ret = String(<<32, 99, 62>>)

\* C27: after a comment, cdata, doctype or processingInstruction event
\* text() and text(true) return the same verbatim slice, also when the
\* content holds an &, and a call of text() there never sets an error:
\* references are resolved in text events and attribute values only.
C27_OnlyTextIsResolved ==
    /\ []((op = "text"
              /\ event \in {"comment", "cdata", "doctype", "processingInstruction"}) =>
             ret = String(RawText))
    /\ [][(op' = "text" /\ nexts' = nexts
              /\ event \in {"comment", "cdata", "doctype", "processingInstruction"}) =>
             error' = error]_vars

\* text() after the CDATA section &d that follows a text run with
\* references.
C27_Witness ==
    /\ nexts = 2
    /\ input.first = <<116, 38, 97, 109, 112, 59, 38, 35, 120, 50, 48, 59>>
    /\ event = "cdata"
    /\ op = "text"
    /\ ~raw
    /\ ret = String(<<38, 100>>)

\* The number of the last attribute of the input with the name.
LastWith(name) ==
    CHOOSE i \in 1..Len(input.names) :
        /\ input.names[i] = name
        /\ \A j \in (i + 1)..Len(input.names) : input.names[j] # name

\* C28: when a tag holds the same attribute name more than once,
\* attributes() returns a mapping that has the name exactly once, bound to
\* the value of its last occurrence in the tag.
C28_LastAttributeWins ==
    (op = "attributes" /\ nexts = 1) =>
        \A i \in 1..Len(input.names) : \A j \in (i + 1)..Len(input.names) :
            input.names[i] = input.names[j] =>
                /\ ret.t = "attributes"
                /\ input.names[i] \in DOMAIN ret.m
                /\ ret.m[input.names[i]] = <<48 + LastWith(input.names[i])>>

\* C29: when the cursor is at <! followed by a character other than -, [
\* and D, or by the end of the input, next() returns error and error()
\* holds the sequence of up to three characters found at the cursor.
C29_UnexpectedSequence ==
    (nexts > 0 /\ OpensAt(prevPos, <<60, 33>>)
        /\ (prevPos + 2 >= Len(S) \/ S[prevPos + 3] \notin {45, 91, 68})) =>
        /\ event = "error"
        /\ error.defined
        /\ error.message = "Unexpected character sequence "
        /\ error.detail = SubSeq(S, prevPos + 1, Min(prevPos + 3, Len(S)))
        /\ op = "error" => ret = Message(error)

\* error() after next() has met <!t at the start of the text.
C29_Witness ==
    /\ S = <<60, 33, 116>>
    /\ event = "error"
    /\ op = "error"
    /\ ret = Message(error)
    /\ error.detail = <<60, 33, 116>>

\* The offsets before o that hold a newline character.
NewlinesBefore(o) == {i \in 0..(Min(o, Len(S)) - 1) : S[i + 1] = 10}

\* The line and the column of offset o: one more than the number of
\* newline characters before o, and o less the offset of the last of them
\* (o + 1 when there is none).
LineOf(o) == 1 + Cardinality(NewlinesBefore(o))

ColumnOf(o) ==
    IF NewlinesBefore(o) = {} THEN o + 1
    ELSE o - (CHOOSE i \in NewlinesBefore(o) : \A j \in NewlinesBefore(o) : j <= i)

\* C30: the position appended to an error message for the error offset o
\* is line:column, the line being 1 plus the number of newline characters
\* before o and the column o less the position of the last newline before
\* o (o + 1 without one), for inputs of any number of lines.  The error
\* offset of the message that next() leaves when it returns eof is the
\* cursor it started from.
C30_LineAndColumn ==
    (op = "next" /\ event = "eof" /\ prevPos >= 0) =>
        /\ error.defined
        /\ error.line = LineOf(prevPos)
        /\ error.col = ColumnOf(prevPos)

NewParser ==
    [pos |-> 0, tagNameStart |-> 0 - 1, tagNameEnd |-> 0 - 1, tagEnd |-> 0 - 1,
     textStart |-> 0 - 1, textEnd |-> 0 - 1, piTargetEnd |-> 0 - 1,
     mightHaveAttributes |-> FALSE, textIsEscaped |-> FALSE, error |-> NoError,
     entityCache |-> initialEntityCache, ret |-> "", hung |-> FALSE]

\* The parser after k calls of next() and of nothing else.
RECURSIVE NextsAlone(_)
NextsAlone(k) == IF k = 0 THEN NewParser ELSE next(NextsAlone(k - 1))

CursorAndMarkers ==
    <<pos, tagNameStart, tagNameEnd, tagEnd, textStart, textEnd, piTargetEnd,
      textIsEscaped>>

\* C32: tagName(), localName(), prefix(), piTarget(), text(raw) and error()
\* leave the cursor, the markers and the escaped flag as they are, also
\* when text() fails to resolve an entity; so the k-th call of next()
\* returns the event, and leaves the cursor, that it does when next() alone
\* is called, whichever of these accessors were called in between.
C32_AccessorsLeaveTheCursor ==
    /\ [](nexts > 0 =>
            /\ event = NextsAlone(nexts).ret
            /\ posAfterNext = NextsAlone(nexts).pos)
    /\ [][op' \in {"tagName", "localName", "prefix", "piTarget", "text", "error"}
            => UNCHANGED CursorAndMarkers]_vars

\* text() has failed to resolve the entity of t& and set the error, and the
\* next() after it returned what it returns without that call.
C32_Witness ==
    /\ S = <<116, 38>> \o <<60, 98, 58, 99, 32, 100, 61, 34, 38, 35, 54, 53, 59,
                            38, 108, 116, 59, 34, 62>>
    /\ nexts = 2
    /\ ~onlyNext
    /\ error.defined
    /\ error.message # unexpectedEOFText
    /\ op = "next"
    /\ event = "startTag"

\* C33: on a parser that only next() is called on, every call returning an
\* event other than eof and error leaves the cursor greater than it found
\* it and at most at the length of the text, and one of the first |S| + 1
\* calls returns eof or error.
C33_NextMovesForward ==
    onlyNext =>
        /\ (nexts > 0 /\ event \notin {"eof", "error"}) =>
               /\ prevPos < pos
               /\ pos <= Len(S)
        /\ \E k \in 1..(Len(S) + 1) : NextsAlone(k).ret \in {"eof", "error"}

\* next() alone has returned the two events of <a/><?p?>.
C33_Witness ==
    /\ S = <<60, 97, 47, 62, 60, 63, 112, 63, 62>>
    /\ onlyNext
    /\ nexts = 2
    /\ event = "processingInstruction"
    /\ prevPos = 4
    /\ pos = 9

\* The attributes of the tag all have a name, an = with or without
\* whitespace around it, and a quoted value with its closing quote and
\* without & and >.
PlainAttributes ==
    \/ input.family = "plain"
    \/ /\ input.family = "tag"
       /\ \A i \in 1..Len(input.forms) :
             /\ input.forms[i].closed
             /\ \A k \in 1..Len(input.forms[i].value) :
                   input.forms[i].value[k] \notin {input.forms[i].quote, 38, 62}

\* C34: for a startTag or singleTag event of a tag without > before its
\* closing one and with attributes of the form name, =, quoted value (with
\* its closing quote, without &), attributes() returns a mapping and leaves
\* the cursor at tagEnd + 1, both when fewer than 5 characters lie between
\* the end of the name and the end of the tag and when it scans the tag.
C34_AttributesEndsBehindTag ==
    (AfterTag /\ op = "attributes" /\ PlainAttributes) =>
        /\ ~hung
        /\ ret.t = "attributes"
        /\ pos = tagEnd + 1

\* attributes() has scanned <a b="v" c = ''/> after <a>.
C34_Witness ==
    /\ S = <<60, 97, 62, 60, 97, 32, 98, 61, 34, 118, 34, 32, 99, 32, 61, 32,
             39, 39, 47, 62>>
    /\ event = "singleTag"
    /\ op = "attributes"
    /\ tagEnd - tagNameEnd >= 5
    /\ ret = Mapping([name \in {<<98>>, <<99>>} |->
                          IF name = <<98>> THEN <<118>> ELSE <<>>])
    /\ pos = 20

\* a <= b <= c <= d
InOrder(a, b, c, d) == a <= b /\ b <= c /\ c <= d

\* C35: after every next() call that returns an event other than eof and
\* error, with p the cursor before the call and q the cursor after it,
\* p < q <= |S|; p <= tagNameStart <= tagNameEnd <= q for startTag,
\* singleTag, endTag and doctype; p <= textStart <= textEnd <= q for text,
\* comment, cdata, doctype and processingInstruction; and
\* p <= tagNameStart <= piTargetEnd <= q for processingInstruction.
C35_MarkersWithinEvent ==
    (op = "next" /\ event \notin {"eof", "error"}) =>
        /\ prevPos < pos
        /\ pos <= Len(S)
        /\ event \in {"startTag", "singleTag", "endTag", "doctype"} =>
               InOrder(prevPos, tagNameStart, tagNameEnd, pos)
        /\ event \in {"text", "comment", "cdata", "doctype", "processingInstruction"} =>
               InOrder(prevPos, textStart, textEnd, pos)
        /\ event = "processingInstruction" =>
               InOrder(prevPos, tagNameStart, piTargetEnd, pos)

\* next() has returned the processing instruction of t<?p?>, whose ?>
\* directly follows the target.
C35_Witness ==
    /\ S = <<116, 60, 63, 112, 63, 62>>
    /\ op = "next"
    /\ event = "processingInstruction"
    /\ prevPos = 1
    /\ tagNameStart = 3
    /\ piTargetEnd = 4
    /\ textStart = 5
    /\ textEnd = 5
    /\ pos = 6

\* Every key of the cache before is a key of the cache after, with the
\* value it had.
OnlyGains(before, after) ==
    /\ DOMAIN before \subseteq DOMAIN after
    /\ \A key \in DOMAIN before : after[key] = before[key]

\* lt, gt, amp, quot and apos with their characters.
PredefinedEntities ==
    { <<(<<108, 116>>), (<<60>>)>>, <<(<<103, 116>>), (<<62>>)>>,
      <<(<<97, 109, 112>>), (<<38>>)>>, <<(<<113, 117, 111, 116>>), (<<34>>)>>,
      <<(<<97, 112, 111, 115>>), (<<39>>)>> }

\* C36: in every reachable state the entity cache maps lt, gt, amp, quot
\* and apos to <, >, &, " and ', and no operation removes a key from the
\* entity cache, the local-name cache or the prefix cache or changes the
\* value of a key: the caches only gain entries.
C36_CachesOnlyGain ==
    /\ [](\A e \in PredefinedEntities :
            e[1] \in DOMAIN entityCache /\ entityCache[e[1]] = e[2])
    /\ [][/\ OnlyGains(entityCache, entityCache')
          /\ OnlyGains(localNameCache, localNameCache')
          /\ OnlyGains(prefixCache, prefixCache')]_vars

\* The three caches have gained entries: the references of t&amp;&#x20;
\* and of d="&#65;&lt;", and the parts of b:c.
C36_Witness ==
    /\ {<<35, 120, 50, 48>>, <<35, 54, 53>>} \subseteq DOMAIN entityCache
    /\ entityCache[<<35, 120, 50, 48>>] = <<32>>
    /\ entityCache[<<35, 54, 53>>] = <<65>>
    /\ <<98, 58, 99>> \in DOMAIN localNameCache
    /\ localNameCache[<<98, 58, 99>>] = <<99>>
    /\ <<98, 58, 99>> \in DOMAIN prefixCache
    /\ prefixCache[<<98, 58, 99>>] = <<98>>

\* What a parser without caches returns: localName() and prefix() split
\* the tag name on every call, and text() converts every numeric reference
\* anew, knowing the five predefined entities only.
UncachedName(name, compute) ==
    IF name.t = "undefined" \/ name.s = <<>> THEN name ELSE String(compute)

UncachedText == TextValue(text([Parser EXCEPT !.entityCache = initialEntityCache], FALSE))

\* C37: the caches are transparent: localName(), prefix() and the
\* resolution of an entity reference return what a parser without caches
\* returns, which splits the name and converts the number on every call,
\* whatever names and references were seen before.
C37_CachesAreTransparent ==
    ~hung =>
        /\ op = "localName" =>
               ret = UncachedName(tagName(Parser), lastComponent(tagName(Parser).s))
        /\ op = "prefix" =>
               ret = UncachedName(tagName(Parser), firstComponentOrEmpty(tagName(Parser).s))
        /\ (op = "text" /\ ~raw) => ret = UncachedText

\* The character with the code point n, as JavaScript strings hold it: one
\* code unit up to 0xFFFF, a pair of surrogates above.
CharacterOf(n) ==
    IF n < 65536 THEN <<n>>
    ELSE <<55296 + ((n - 65536) \div 1024), 56320 + ((n - 65536) % 1024)>>

\* The number that the reference body (#N or #xH) denotes.
NumberOfReference(body) ==
    IF Len(body) >= 2 /\ body[2] = 120
    THEN parseInt(SubSeq(body, 3, Len(body)), 16).value
    ELSE parseInt(SubSeq(body, 2, Len(body)), 10).value

\* str with each of its numeric character references replaced by the
\* character of that number; semi is the index of the first ; of str.
RECURSIVE WithCharacters(_)
WithCharactersUpTo(str, semi) ==
    CharacterOf(NumberOfReference(SubSeq(str, 2, semi - 1)))
        \o WithCharacters(SubSeq(str, semi + 1, Len(str)))

WithCharacters(str) ==
    IF str = <<>> THEN <<>>
    ELSE IF Head(str) = 38
    THEN WithCharactersUpTo(str, CHOOSE i \in 1..Len(str) :
                                     str[i] = 59 /\ \A j \in 1..(i - 1) : str[j] # 59)
    ELSE <<Head(str)>> \o WithCharacters(Tail(str))

\* C38: a numeric character reference &#N; or &#xH; resolves to the
\* character whose code point is the number N or H, also for code points
\* above 0xFFFF (no truncation modulo 2^16): text() after the text of
\* SpecNumeric returns the text with every reference replaced by that
\* character.
C38_NumericReferenceIsCodePoint ==
    (input.family = "numeric" /\ nexts = 1 /\ event = "text" /\ op = "text" /\ ~raw) =>
        ret = String(WithCharacters(Concat(input.pieces)))

====
